---- MODULE Spec2Model ----
(***************************************************************************)
(* Visor3dMci: the 3D viewer (App), its project panel and the file-backed *)
(* project server (server.js), as one state machine.                       *)
(*                                                                         *)
(* Conventions of the model                                                *)
(*   - null / undefined ids are 0 (project ids, root ids) or -1 (part ids) *)
(*   - angles in the render object are radians, counted in units of pi/2   *)
(*     (the UI's degrees are multiples of 90)                              *)
(*   - opacity is counted in hundredths                                    *)
(*   - a React handler is one action: the handler, the re-render it        *)
(*     schedules and the effects that re-render runs                       *)
(***************************************************************************)
EXTENDS Integers, Sequences, FiniteSets, TLC

(***************************************************************************)
(* Bounds of the model                                                     *)
(***************************************************************************)
\* loads (local file or project) started in one session
MaxLoads == 2
\* store calls the viewer starts in one session
MaxCalls == 1

VARIABLES
  \* ---- viewer: refs (useRef) ----
  modelRef,        \* id of the active SceneRoot in roots, 0 = null
  modelTypeRef,    \* extension of the last file or project asked for
  isMobile,
  \* ---- viewer: React state (useState) ----
  hasModel, visible, position, rotation,
  parts, editingPartId,
  projects, currentProjectId, pendingNotes,
  \* ---- render objects and asynchronous work ----
  roots,           \* every SceneRoot a loader produced, by load id; its field
                   \* scene is "current" (child of sceneRef.current), "old"
                   \* (child of a scene whose renderer was torn down) or "none"
  loads,           \* loads in flight
  nextLoad,        \* loads started so far
  calls,           \* store calls of the viewer in flight
  lastDone,        \* the store call that finished last
  nextCall,        \* store calls started so far
  alertMsg,        \* what the last step showed with alert(), "" = nothing
  \* ---- server ----
  db,              \* data/projects.json
  pub,             \* public/<slug>/: the model file and scene.json
  lastHttp,        \* the request the server handled last, with its status
  handlers,        \* route handlers waiting at an await, by slot: the request
                   \* and the array loadDb() returned to the handler
  \* ---- viewer: camera, selection banner, new-project form ----
  camera,          \* what fitCameraToObject last framed (controls.target and
                   \* the largest side of the box)
  selectedPartInfo,\* the part shown in the banner, NoInfo = null
  timers,          \* pending timeouts of the banner: seconds left of each
  age,             \* seconds since selectedPartInfo was last set
  form,            \* the fields of ProjectManagerModal
  quote            \* the Cotizacion modal: its props, its state and its fetches

viewerState == <<hasModel, visible, position, rotation, parts, editingPartId,
                 projects, currentProjectId, pendingNotes>>
viewerRefs  == <<modelRef, modelTypeRef, isMobile>>
renderVars  == <<roots, loads, nextLoad>>
callVars    == <<calls, lastDone, nextCall>>
serverVars  == <<db, pub, lastHttp, handlers>>
selectVars  == <<selectedPartInfo, timers, age, quote>>
uiVars      == <<camera, selectVars, form>>
vars == <<viewerState, viewerRefs, renderVars, callVars, alertMsg, serverVars, uiVars>>

(***************************************************************************)
(* Vectors                                                                 *)
(***************************************************************************)
Vec(x, y, z) == [x |-> x, y |-> y, z |-> z]
Origin == Vec(0, 0, 0)
VSub(a, b) == Vec(a.x - b.x, a.y - b.y, a.z - b.z)
Min2(a, b) == IF a <= b THEN a ELSE b
Max2(a, b) == IF a >= b THEN a ELSE b

(***************************************************************************)
(* Colours and materials                                                   *)
(***************************************************************************)
PART_COLORS == << "#f97316", "#22c55e", "#3b82f6", "#eab308",
                  "#ec4899", "#8b5cf6", "#06b6d4", "#f59e0b" >>

getPartColor(index) == PART_COLORS[(index % Len(PART_COLORS)) + 1]

MATERIAL_PRESETS ==
  [ plastic    |-> [shininess |-> 30, specular |-> "0x444444", transparent |-> FALSE, opacity |-> 100],
    metal      |-> [shininess |-> 80, specular |-> "0xcccccc", transparent |-> FALSE, opacity |-> 100],
    roughMetal |-> [shininess |-> 25, specular |-> "0x888888", transparent |-> FALSE, opacity |-> 100],
    rubber     |-> [shininess |-> 5,  specular |-> "0x111111", transparent |-> FALSE, opacity |-> 100],
    glass      |-> [shininess |-> 90, specular |-> "0xffffff", transparent |-> TRUE,  opacity |-> 25] ]

PresetOrPlastic(presetKey) ==
  IF presetKey \in DOMAIN MATERIAL_PRESETS THEN MATERIAL_PRESETS[presetKey]
  ELSE MATERIAL_PRESETS["plastic"]

\* a || b on strings: the empty string is falsy
Or(a, b) == IF a # "" THEN a ELSE b

createMaterialForPart(colorHex, presetKey) ==
  LET preset == PresetOrPlastic(presetKey) IN
  [ isMeshPhongMaterial |-> TRUE,
    color       |-> Or(colorHex, "#ffffff"),
    shininess   |-> preset.shininess,
    specular    |-> preset.specular,
    transparent |-> preset.transparent,
    opacity     |-> preset.opacity,
    side        |-> "DoubleSide" ]

\* the material a loader leaves on a mesh: OBJLoader and 3MFLoader build
\* MeshPhongMaterial, GLTFLoader builds MeshStandardMaterial
FilePhongMaterial ==
  [ isMeshPhongMaterial |-> TRUE, color |-> "#ffffff", shininess |-> 30,
    specular |-> "0x111111", transparent |-> FALSE, opacity |-> 100,
    side |-> "FrontSide" ]
FileStandardMaterial ==
  [ isMeshPhongMaterial |-> FALSE, color |-> "#cccccc", shininess |-> 0,
    specular |-> "0x000000", transparent |-> FALSE, opacity |-> 100,
    side |-> "FrontSide" ]
NoMaterial ==
  [ isMeshPhongMaterial |-> FALSE, color |-> "", shininess |-> 0,
    specular |-> "", transparent |-> FALSE, opacity |-> 0, side |-> "" ]

(***************************************************************************)
(* Scene nodes: a SceneRoot is a tree of nodes                             *)
(***************************************************************************)
Node(isMesh, name, material, kids) ==
  [ isMesh |-> isMesh, name |-> name, visible |-> TRUE, material |-> material,
    partId |-> -1, baseColor |-> "", materialPreset |-> "", kids |-> kids ]
Mesh(name, material, kids) == Node(TRUE, name, material, kids)
Group(name, kids) == Node(FALSE, name, NoMaterial, kids)

\* `Parte ${index + 1}`
ParteNames == << "Parte 1", "Parte 2", "Parte 3", "Parte 4", "Parte 5",
                 "Parte 6", "Parte 7", "Parte 8", "Parte 9", "Parte 10" >>
ParteName(index) == ParteNames[index + 1]

\* String(partId)
String(n) == ToString(n)

(***************************************************************************)
(* PartIndexer: updatePartsFromRoot                                        *)
(***************************************************************************)
\* what the traverse callback does to one mesh met with the counter at index
\* (a stamp that also writes the id into the mesh's name)
MutStampMesh(child, index) ==
  [ child EXCEPT !.partId = index, !.baseColor = getPartColor(index),
                 !.material = createMaterialForPart(getPartColor(index), "plastic"),
                 !.name = String(index) ]
StampMesh(child, index) ==
  LET partColor == getPartColor(index) IN
  [ child EXCEPT
      !.partId = index,
      !.baseColor = partColor,
      !.material =
        IF ~child.material.isMeshPhongMaterial
          THEN createMaterialForPart(partColor, "plastic")
          ELSE [ @ EXCEPT !.color = partColor,
                          !.shininess = MATERIAL_PRESETS["plastic"].shininess,
                          !.specular = MATERIAL_PRESETS["plastic"].specular,
                          !.transparent = MATERIAL_PRESETS["plastic"].transparent,
                          !.opacity = MATERIAL_PRESETS["plastic"].opacity,
                          !.side = "DoubleSide" ] ]

NewPart(child, index) ==
  [ id |-> index,
    name |-> Or(child.name, ParteName(index)),
    visible |-> child.visible,
    color |-> getPartColor(index),
    materialPreset |-> "plastic",
    notes |-> "" ]

\* the counter after the callback has seen this node
MutNextIndex(child, index) == index + 1
NextIndex(child, index) == IF child.isMesh THEN index + 1 ELSE index

\* Object3D.traverse: the callback on the node, then on each child in order.
\* Returns the stamped node, the counter and the parts pushed so far.
RECURSIVE Traverse(_, _)
RECURSIVE TraverseKids(_, _)
Traverse(n, index) ==
  LET self == IF n.isMesh THEN StampMesh(n, index) ELSE n
      own  == IF n.isMesh THEN << NewPart(n, index) >> ELSE << >>
      sub  == TraverseKids(n.kids, NextIndex(n, index))
  IN [ node  |-> [ self EXCEPT !.kids = sub.nodes ],
       next  |-> sub.next,
       parts |-> own \o sub.parts ]
TraverseKids(ks, index) ==
  IF ks = << >> THEN [ nodes |-> << >>, next |-> index, parts |-> << >> ]
  ELSE LET h == Traverse(Head(ks), index)
           t == TraverseKids(Tail(ks), h.next)
       IN [ nodes |-> << h.node >> \o t.nodes,
            next  |-> t.next,
            parts |-> h.parts \o t.parts ]

\* the tree after stamping, and the list handed to setParts
updatePartsFromRoot(tree) ==
  LET r == Traverse(tree, 0) IN [ tree |-> r.node, parts |-> r.parts ]

(***************************************************************************)
(* MetaReconciler: applyProjectPartsMeta                                   *)
(***************************************************************************)
\* meta[p.id], which JavaScript looks up under the key String(p.id)
MetaEntry(meta, id) ==
  IF String(id) \in DOMAIN meta THEN meta[String(id)] ELSE << >>
HasMetaEntry(meta, id) == String(id) \in DOMAIN meta

\* m.f || fallback
FieldOr(m, f, fallback) ==
  IF f \in DOMAIN m /\ m[f] # "" THEN m[f] ELSE fallback

MutApplyMetaToPart(p, m) ==
  [ p EXCEPT
      !.name = FieldOr(m, "name", p.name),
      !.notes = IF "notes" \in DOMAIN m THEN m["notes"] ELSE Or(p.notes, ""),
      !.color = Or(p.color, "#22c55e"),
      !.materialPreset = FieldOr(m, "materialPreset", Or(p.materialPreset, "plastic")) ]

ApplyMetaToPart(p, m) ==
  [ p EXCEPT
      !.name = FieldOr(m, "name", p.name),
      !.notes = IF "notes" \in DOMAIN m THEN m["notes"] ELSE Or(p.notes, ""),
      !.color = FieldOr(m, "color", Or(p.color, "#22c55e")),
      !.materialPreset = FieldOr(m, "materialPreset", Or(p.materialPreset, "plastic")) ]

applyProjectPartsMeta(project, prev) ==
  [ i \in DOMAIN prev |->
      IF HasMetaEntry(project.partsMeta, prev[i].id)
        THEN ApplyMetaToPart(prev[i], MetaEntry(project.partsMeta, prev[i].id))
        ELSE prev[i] ]

(***************************************************************************)
(* Geometry: Box3.setFromObject for a root under its position and rotation *)
(***************************************************************************)
Cos4(q) == CASE q % 4 = 0 -> 1  [] q % 4 = 1 -> 0 [] q % 4 = 2 -> -1 [] OTHER -> 0
Sin4(q) == CASE q % 4 = 0 -> 0  [] q % 4 = 1 -> 1 [] q % 4 = 2 -> 0  [] OTHER -> -1

\* THREE.MathUtils.degToRad, in units of pi/2
degToRad(deg) == deg \div 90

\* rows of Matrix4.makeRotationFromEuler for the order XYZ
RotRows(r) ==
  LET a == Cos4(r.x)  b == Sin4(r.x)
      c == Cos4(r.y)  d == Sin4(r.y)
      e == Cos4(r.z)  f == Sin4(r.z)
  IN [ x |-> << c * e, -(c * f), d >>,
       y |-> << a * f + b * e * d, a * e - b * f * d, -(b * c) >>,
       z |-> << b * f - a * e * d, b * e + a * f * d, a * c >> ]

RowMin(row, box) ==
    Min2(row[1] * box.min.x, row[1] * box.max.x)
  + Min2(row[2] * box.min.y, row[2] * box.max.y)
  + Min2(row[3] * box.min.z, row[3] * box.max.z)
RowMax(row, box) ==
    Max2(row[1] * box.min.x, row[1] * box.max.x)
  + Max2(row[2] * box.min.y, row[2] * box.max.y)
  + Max2(row[3] * box.min.z, row[3] * box.max.z)

\* new THREE.Box3().setFromObject(object)
WorldBox(object) ==
  LET rows == RotRows(object.rotation) IN
  [ empty |-> object.box.empty,
    min |-> Vec(object.position.x + RowMin(rows.x, object.box),
                object.position.y + RowMin(rows.y, object.box),
                object.position.z + RowMin(rows.z, object.box)),
    max |-> Vec(object.position.x + RowMax(rows.x, object.box),
                object.position.y + RowMax(rows.y, object.box),
                object.position.z + RowMax(rows.z, object.box)) ]

\* Box3.getCenter: the origin for an empty box
BoxCenter(b) ==
  IF b.empty THEN Origin
  ELSE Vec((b.min.x + b.max.x) \div 2, (b.min.y + b.max.y) \div 2,
           (b.min.z + b.max.z) \div 2)

centerObjectAtOrigin(object) ==
  [ object EXCEPT !.position = VSub(@, BoxCenter(WorldBox(object))) ]

snapModelToGround(object) ==
  LET box == WorldBox(object) IN
  IF box.empty THEN object
  ELSE [ object EXCEPT !.position.y = @ - box.min.y ]

\* The camera as the Three.js effect creates it: OrbitControls looks at the
\* origin and nothing has been framed.
InitCamera == [ target |-> Origin, maxDim |-> 0 ]

\* fitCameraToObject(object): controls.target is the centre of the object's
\* box as it is at the call, the distance follows from the largest side
fitCameraToObject(object) ==
  LET box == WorldBox(object) IN
  IF box.empty THEN InitCamera
  ELSE [ target |-> BoxCenter(box),
         maxDim |-> Max2(box.max.x - box.min.x,
                         Max2(box.max.y - box.min.y, box.max.z - box.min.z)) ]

(***************************************************************************)
(* Model files: what a file's bytes parse to                               *)
(***************************************************************************)
Box(lo, hi) == [ empty |-> FALSE, min |-> lo, max |-> hi ]

TreeA ==
  Group("", << Mesh("base", FilePhongMaterial, << >>),
               Group("grupo", << Mesh("", FilePhongMaterial, << >>),
                                 Mesh("tapa", FilePhongMaterial, << >>) >>),
               Mesh("", FilePhongMaterial, << >>) >>)
TreeB ==
  Group("Scene", << Mesh("cuerpo", FileStandardMaterial,
                         << Mesh("", FileStandardMaterial, << >>) >>),
                    Group("vacio", << >>),
                    Mesh("rueda", FileStandardMaterial, << >>) >>)

\* content name -> the format it is encoded in, its geometry's bounding box
\* and (for the formats that carry a tree) its node tree
Contents ==
  [ geoA  |-> [ format |-> "stl", box |-> Box(Vec(0, 2, 0), Vec(4, 6, 2)),
                tree |-> Group("", << >>) ],
    treeA |-> [ format |-> "obj", box |-> Box(Vec(-2, 0, -2), Vec(2, 4, 2)),
                tree |-> TreeA ],
    treeB |-> [ format |-> "gltf", box |-> Box(Vec(2, -2, 0), Vec(6, 2, 4)),
                tree |-> TreeB ],
    text  |-> [ format |-> "none", box |-> Box(Origin, Origin),
                tree |-> Group("", << >>) ] ]

\* name.split(".").pop().toLowerCase()
ExtOf ==
  [ n \in { "pieza.stl", "ROBOT.GLB", "notas.txt",
            "modelo.stl", "modelo.obj", "modelo.glb", "modelo.txt" } |->
      CASE n \in { "pieza.stl", "modelo.stl" } -> "stl"
        [] n = "modelo.obj" -> "obj"
        [] n \in { "ROBOT.GLB", "modelo.glb" } -> "glb"
        [] OTHER -> "txt" ]

\* "modelo" + path.extname(originalname).toLowerCase()
ModelFileName(originalname) ==
  CASE ExtOf[originalname] = "stl" -> "modelo.stl"
    [] ExtOf[originalname] = "obj" -> "modelo.obj"
    [] ExtOf[originalname] = "glb" -> "modelo.glb"
    [] OTHER -> "modelo.txt"

\* the loader the switch on ext picks: "" when the default branch is taken
MutLoaderFor(ext) ==
  CASE ext = "stl" -> "STL"
    [] ext \in { "gltf", "glb" } -> "GLTF"
    [] ext = "ply" -> "PLY"
    [] ext = "3mf" -> "3MF"
    [] OTHER -> "OBJ"
LoaderFor(ext) ==
  CASE ext = "stl" -> "STL"
    [] ext = "obj" -> "OBJ"
    [] ext \in { "gltf", "glb" } -> "GLTF"
    [] ext = "ply" -> "PLY"
    [] ext = "3mf" -> "3MF"
    [] OTHER -> ""

\* a loader parses only the format it is written for
LoaderFormat ==
  [ STL |-> "stl", OBJ |-> "obj", GLTF |-> "gltf", PLY |-> "ply", 3MF |-> "3mf" ]

\* the object a loader's success callback hands to addRootToScene: loadSTL and
\* loadPLY wrap the geometry in one mesh, the others pass the parsed tree on.
\* format records which loader built the object.
LoadedRoot(loader, content) ==
  [ tree |-> IF loader \in { "STL", "PLY" }
               THEN Mesh("", createMaterialForPart("#ffffff", "plastic"), << >>)
               ELSE Contents[content].tree,
    box |-> Contents[content].box,
    format |-> loader,
    position |-> Origin,
    rotation |-> Origin,
    visible |-> TRUE,
    scene |-> "none",
    disposed |-> FALSE ]

\* files the user can pick from disk
LocalFiles ==
  { [ name |-> "pieza.stl", content |-> "geoA" ],
    [ name |-> "ROBOT.GLB", content |-> "treeB" ],
    [ name |-> "notas.txt", content |-> "text" ] }

(***************************************************************************)
(* The server's store                                                      *)
(***************************************************************************)
\* crypto sha256 of the password, hex
hashPassword(password) == << "sha256", password >>

\* the slug text made from a project name (normalize, lower-case, dashes)
SlugText ==
  [ n \in { "Bracket v1", "Pieza", "Soporte" } |->
      CASE n = "Bracket v1" -> "bracket-v1"
        [] n = "Pieza" -> "pieza"
        [] OTHER -> "soporte" ]
SlugFor(id, name) == << id, SlugText[name] >>

NoUrl == << >>

\* GET /api/projects: what the list shows of one stored project
ProjectView(p) ==
  [ id |-> p.id, name |-> p.name, author |-> p.author, date |-> p.date,
    position |-> p.position, rotation |-> p.rotation,
    modelFile |-> p.modelFile,
    modelUrl |-> IF p.modelFile # "" THEN << p.slug, p.modelFile >> ELSE NoUrl,
    partsMeta |-> p.partsMeta, pendingNotes |-> p.pendingNotes ]
GetProjects(store) == [ i \in DOMAIN store |-> ProjectView(store[i]) ]

\* writeSceneJson
SceneJson(project) ==
  [ projectName |-> project.name, author |-> project.author,
    date |-> project.date, passwordHash |-> project.passwordHash,
    position |-> project.position, rotation |-> project.rotation,
    modelFile |-> project.modelFile, partsMeta |-> project.partsMeta ]

Entry(name, notes, color, materialPreset) ==
  [ name |-> name, notes |-> notes, color |-> color,
    materialPreset |-> materialPreset ]

InitProject1 ==
  [ id |-> 1, name |-> "Bracket v1", author |-> "ana", date |-> "2024-01-01",
    slug |-> SlugFor(1, "Bracket v1"),
    passwordHash |-> hashPassword("abc123"),
    modelFile |-> "modelo.obj",
    position |-> Vec(0, 3, 0), rotation |-> Vec(90, 0, 0),
    partsMeta |-> ( "0" :> Entry("Base", "pulir", "#ff0000", "metal")
                 @@ "2" :> Entry("", "", "#00ff00", "glass") ),
    pendingNotes |-> "revisar" ]
InitProject2 ==
  [ id |-> 2, name |-> "Pieza", author |-> "", date |-> "",
    slug |-> SlugFor(2, "Pieza"),
    passwordHash |-> hashPassword("abc123"),
    modelFile |-> "modelo.stl",
    position |-> Vec(3, 3, 0), rotation |-> Vec(0, 0, 90),
    partsMeta |-> ( "0" :> [ color |-> "#0000ff" ]
                 @@ "7" :> Entry("otra", "", "#ffffff", "rubber") ),
    pendingNotes |-> "" ]

InitDb == << InitProject1, InitProject2 >>
InitPub ==
     InitProject1.slug :> [ files |-> ("modelo.obj" :> "treeA"),
                            scene |-> SceneJson(InitProject1) ]
  @@ InitProject2.slug :> [ files |-> ("modelo.stl" :> "geoA"),
                            scene |-> SceneJson(InitProject2) ]

(***************************************************************************)
(* Server: request handlers.  A request is                                 *)
(*   [kind, id, password, body]; password "" is a missing password, a body *)
(* field that is not in DOMAIN body is undefined.  A handler yields the    *)
(* response status and the store and public directory it leaves.           *)
(***************************************************************************)
Reply(status, store, fs, projectId) ==
  [ status |-> status, db |-> store, pub |-> fs, projectId |-> projectId ]

\* findProject / findIndex: the first project whose id matches, 0 if none
FindIndex(store, id) ==
  IF \E i \in DOMAIN store : String(store[i].id) = String(id)
    THEN CHOOSE i \in DOMAIN store :
           /\ String(store[i].id) = String(id)
           /\ \A j \in 1..(i - 1) : String(store[j].id) # String(id)
    ELSE 0

BodyOr(body, f, default) == IF f \in DOMAIN body THEN body[f] ELSE default

\* (a writeSceneJson that only makes sure the directory is there)
MutWriteSceneJson(fs, project) ==
  IF project.slug \in DOMAIN fs THEN fs
  ELSE (project.slug :> [ files |-> << >>, scene |-> << >> ]) @@ fs
\* writeSceneJson: ensureDirSync(public/<slug>) and write scene.json
writeSceneJson(fs, project) ==
  IF project.slug \in DOMAIN fs
    THEN [ fs EXCEPT ![project.slug].scene = SceneJson(project) ]
    ELSE (project.slug :> [ files |-> << >>, scene |-> SceneJson(project) ]) @@ fs

NoScene == << >>
MutRemoveDir(fs, slug) == << >>
RemoveDir(fs, slug) == [ d \in DOMAIN fs \ { slug } |-> fs[d] ]
RemoveFile(files, name) == [ n \in DOMAIN files \ { name } |-> files[n] ]

\* does the password of the request hash to the stored hash
MutPasswordMatches(project, password) == TRUE
PasswordMatches(project, password) == hashPassword(password) = project.passwordHash

\* PUT /api/projects/:id/transform
PutTransform(store, fs, req) ==
  LET i == FindIndex(store, req.id) IN
  IF req.password = "" THEN Reply(400, store, fs, 0)
  ELSE IF i = 0 THEN Reply(404, store, fs, 0)
  ELSE IF ~PasswordMatches(store[i], req.password) THEN Reply(403, store, fs, 0)
  ELSE LET project == [ store[i] EXCEPT
                          !.position = BodyOr(req.body, "position", Origin),
                          !.rotation = BodyOr(req.body, "rotation", Origin) ]
       IN Reply(200, [ store EXCEPT ![i] = project ], writeSceneJson(fs, project), 0)

\* PUT /api/projects/:id/rename
PutRename(store, fs, req) ==
  LET i == FindIndex(store, req.id)
      name == BodyOr(req.body, "name", "")
  IN
  IF name = "" \/ req.password = "" THEN Reply(400, store, fs, 0)
  ELSE IF i = 0 THEN Reply(404, store, fs, 0)
  ELSE IF ~PasswordMatches(store[i], req.password) THEN Reply(403, store, fs, 0)
  ELSE LET oldSlug == store[i].slug
           newSlug == SlugFor(store[i].id, name)
           project == [ store[i] EXCEPT !.name = name, !.slug = newSlug ]
           moved == IF oldSlug \in DOMAIN fs
                      THEN (newSlug :> fs[oldSlug]) @@ RemoveDir(fs, oldSlug)
                      ELSE IF newSlug \in DOMAIN fs THEN fs
                      ELSE (newSlug :> [ files |-> << >>, scene |-> NoScene ]) @@ fs
       IN Reply(200, [ store EXCEPT ![i] = project ], writeSceneJson(moved, project), 0)

\* PUT /api/projects/:id/notes
PutNotes(store, fs, req) ==
  LET i == FindIndex(store, req.id) IN
  IF req.password = "" THEN Reply(400, store, fs, 0)
  ELSE IF i = 0 THEN Reply(404, store, fs, 0)
  ELSE IF ~PasswordMatches(store[i], req.password) THEN Reply(403, store, fs, 0)
  ELSE LET project == [ store[i] EXCEPT !.pendingNotes = BodyOr(req.body, "notes", "") ]
       IN Reply(200, [ store EXCEPT ![i] = project ], writeSceneJson(fs, project), 0)

\* project.partsMeta[key] = { ... }
MutSetEntry(partsMeta, key, entry) == (key :> entry)
SetEntry(partsMeta, key, entry) == (key :> entry) @@ partsMeta

\* PUT /api/projects/:id/parts-meta
PutPartsMeta(store, fs, req) ==
  LET i == FindIndex(store, req.id) IN
  IF "partId" \notin DOMAIN req.body THEN Reply(400, store, fs, 0)
  ELSE IF req.password = "" THEN Reply(400, store, fs, 0)
  ELSE IF i = 0 THEN Reply(404, store, fs, 0)
  ELSE IF ~PasswordMatches(store[i], req.password) THEN Reply(403, store, fs, 0)
  ELSE LET key == String(req.body.partId)
           prev == IF key \in DOMAIN store[i].partsMeta THEN store[i].partsMeta[key] ELSE << >>
           entry == [ name |-> BodyOr(req.body, "name", FieldOr(prev, "name", "")),
                      notes |-> BodyOr(req.body, "notes", FieldOr(prev, "notes", "")),
                      color |-> BodyOr(req.body, "color", FieldOr(prev, "color", "#22c55e")),
                      materialPreset |->
                        BodyOr(req.body, "materialPreset",
                               FieldOr(prev, "materialPreset", "plastic")) ]
           project == [ store[i] EXCEPT !.partsMeta = SetEntry(@, key, entry) ]
       IN Reply(200, [ store EXCEPT ![i] = project ], writeSceneJson(fs, project), 0)

\* DELETE /api/projects/:id
DeleteProject(store, fs, req) ==
  LET i == FindIndex(store, req.id) IN
  IF req.password = "" THEN Reply(400, store, fs, 0)
  ELSE IF i = 0 THEN Reply(404, store, fs, 0)
  ELSE IF ~PasswordMatches(store[i], req.password) THEN Reply(403, store, fs, 0)
  ELSE Reply(200,
             SubSeq(store, 1, i - 1) \o SubSeq(store, i + 1, Len(store)),
             RemoveDir(fs, store[i].slug), 0)

\* PUT /api/projects/:id/model; the uploaded file is body.file, "" if none
PutModel(store, fs, req) ==
  LET i == FindIndex(store, req.id) IN
  IF "file" \notin DOMAIN req.body THEN Reply(400, store, fs, 0)
  ELSE IF i = 0 THEN Reply(404, store, fs, 0)
  ELSE LET slug == store[i].slug
           dir == IF slug \in DOMAIN fs THEN fs[slug]
                  ELSE [ files |-> << >>, scene |-> NoScene ]
           modelFileName == ModelFileName(req.body.file.name)
           kept == IF store[i].modelFile # "" THEN RemoveFile(dir.files, store[i].modelFile)
                   ELSE dir.files
           files == (modelFileName :> req.body.file.content) @@ kept
           project == [ store[i] EXCEPT !.modelFile = modelFileName ]
           fs1 == (slug :> [ dir EXCEPT !.files = files ]) @@ fs
       IN Reply(200, [ store EXCEPT ![i] = project ], writeSceneJson(fs1, project), 0)

MaxId(store) ==
  CHOOSE m \in { store[i].id : i \in DOMAIN store } :
    \A i \in DOMAIN store : store[i].id <= m

\* POST /api/projects
\* if (!file || !projectName || !password)
MutCreateIncomplete(req) ==
  \/ "file" \notin DOMAIN req.body
  \/ BodyOr(req.body, "projectName", "") = ""
CreateIncomplete(req) ==
  \/ "file" \notin DOMAIN req.body
  \/ BodyOr(req.body, "projectName", "") = ""
  \/ req.password = ""

PostProject(store, fs, req) ==
  IF CreateIncomplete(req)
    THEN Reply(400, store, fs, 0)
  ELSE LET newId == IF Len(store) > 0 THEN MaxId(store) + 1 ELSE 1
           slug == SlugFor(newId, req.body.projectName)
           modelFileName == ModelFileName(req.body.file.name)
           kept == IF slug \in DOMAIN fs THEN fs[slug].files ELSE << >>
           newProject ==
             [ id |-> newId, name |-> req.body.projectName,
               author |-> BodyOr(req.body, "author", ""),
               date |-> BodyOr(req.body, "date", ""),
               slug |-> slug,
               passwordHash |-> hashPassword(req.password),
               modelFile |-> modelFileName,
               position |-> BodyOr(req.body, "position", Origin),
               rotation |-> BodyOr(req.body, "rotation", Origin),
               partsMeta |-> BodyOr(req.body, "partsMeta", << >>),
               pendingNotes |-> "" ]
           fs1 == (slug :> [ files |-> (modelFileName :> req.body.file.content) @@ kept,
                             scene |-> IF slug \in DOMAIN fs THEN fs[slug].scene ELSE NoScene ])
                  @@ fs
       IN Reply(200, Append(store, newProject), writeSceneJson(fs1, newProject), newId)

\* what has become of the temporary file multer wrote to uploads/ for the
\* request, once the route has answered with status: "none" (no file was
\* sent), "moved" (into public/<slug>), "removed" or "left"
UploadAfter(req, status) ==
  IF req.kind \notin { "create", "model" } \/ "file" \notin DOMAIN req.body THEN "none"
  ELSE IF status = 200 THEN "moved"
  ELSE IF req.kind = "create" /\ status = 500 THEN "left"
  ELSE "removed"

\* the route table
Handle(store, fs, req) ==
  CASE req.kind = "create"     -> PostProject(store, fs, req)
    [] req.kind = "model"      -> PutModel(store, fs, req)
    [] req.kind = "transform"  -> PutTransform(store, fs, req)
    [] req.kind = "rename"     -> PutRename(store, fs, req)
    [] req.kind = "notes"      -> PutNotes(store, fs, req)
    [] req.kind = "parts-meta" -> PutPartsMeta(store, fs, req)
    [] req.kind = "delete"     -> DeleteProject(store, fs, req)

(***************************************************************************)
(* Viewer: model utilities                                                 *)
(***************************************************************************)
\* A root that was removed and disposed is referenced by nothing the program
\* reads again: the model keeps of it only that it is disposed and which scene
\* still holds it.
Released(scene) ==
  [ tree |-> Group("", << >>), box |-> [ empty |-> TRUE, min |-> Origin, max |-> Origin ],
    format |-> "", position |-> Origin, rotation |-> Origin, visible |-> TRUE,
    scene |-> scene, disposed |-> TRUE ]

\* clearCurrentModel: what it leaves of roots, parts and editingPartId.
\* scene.remove only detaches a child of the scene it is called on.
clearCurrentModel ==
  IF modelRef = 0
    THEN [ roots |-> roots, parts |-> parts, editingPartId |-> editingPartId ]
    ELSE [ roots |-> [ roots EXCEPT
                         ![modelRef] = Released(
                           IF @.scene = "current" THEN "none" ELSE @.scene) ],
           parts |-> << >>,
           editingPartId |-> -1 ]

\* the effect on [position]
PositionEffect(object, pos) ==
  LET moved == [ object EXCEPT !.position = pos ] IN
  IF modelTypeRef = "stl" THEN snapModelToGround(moved) ELSE moved

\* the effect on [rotation]
RotationEffect(object, rot) ==
  LET turned == [ object EXCEPT
                    !.rotation = Vec(degToRad(rot.x), degToRad(rot.y), degToRad(rot.z)) ]
  IN IF modelTypeRef = "stl" THEN snapModelToGround(turned) ELSE turned

\* (an addRootToScene that keeps the Part sequence it finds)
MutAddRootToScene(root, id) ==
  LET placed  == snapModelToGround(centerObjectAtOrigin(root))
      indexed == updatePartsFromRoot(placed.tree)
      added   == [ placed EXCEPT !.scene = "current", !.tree = indexed.tree ]
  IN [ roots |-> (id :> added) @@ clearCurrentModel.roots,
       modelRef |-> id,
       hasModel |-> TRUE,
       visible |-> TRUE,
       position |-> Origin,
       rotation |-> Origin,
       parts |-> parts,
       editingPartId |-> clearCurrentModel.editingPartId,
       camera |-> fitCameraToObject(added) ]

\* addRootToScene(root) for the root of load id: the values of the refs and
\* of the React state when it returns
addRootToScene(root, id) ==
  LET cleared == clearCurrentModel
      placed  == snapModelToGround(centerObjectAtOrigin(root))
      indexed == updatePartsFromRoot(placed.tree)
      added   == [ placed EXCEPT !.scene = "current", !.tree = indexed.tree ]
  IN [ roots |-> (id :> added) @@ cleared.roots,
       modelRef |-> id,
       hasModel |-> TRUE,
       visible |-> TRUE,
       position |-> Origin,
       rotation |-> Origin,
       parts |-> indexed.parts,
       editingPartId |-> cleared.editingPartId,
       camera |-> fitCameraToObject(added) ]

\* applyTransformAndMeta, the onLoaded callback of a project load
applyTransformAndMeta(st, project) ==
  [ st EXCEPT !.position = project.position,
              !.rotation = project.rotation,
              !.parts = applyProjectPartsMeta(project, st.parts) ]

(***************************************************************************)
(* Viewer: starting a load                                                 *)
(***************************************************************************)
NoProject == [ id |-> 0 ]
\* setSelectedPartInfo(null)
NoInfo == [ id |-> -1, name |-> "", notes |-> "" ]
\* the fields of ProjectManagerModal after mount and after every submit
NoFile == [ name |-> "", content |-> "" ]
EmptyForm == [ name |-> "", author |-> "", password |-> "", file |-> NoFile ]
\* Cotizacion after mount: closed, one default row, nothing fetched or sent
Row(concepto, cantidad, precio, link) ==
  [ concepto |-> concepto, cantidad |-> cantidad, precio |-> precio, link |-> link ]
DefaultItems == << Row("", 1, 0, "") >>
\* the last PUT of handleSave and whether a loadQuote was in flight at the click
NoPut == [ pid |-> 0, items |-> << >>, loading |-> FALSE ]
ClosedQuote ==
  [ isOpen |-> FALSE, projectId |-> 0, items |-> DefaultItems, loading |-> FALSE,
    error |-> "", fetches |-> { }, sent |-> NoPut ]
NoCall == [ kind |-> "", ok |-> FALSE, refetched |-> FALSE, pid |-> 0, body |-> << >> ]
\* saved is the store call that had finished last when the load was started
NewLoad(loader, local, url, project) ==
  [ id |-> nextLoad + 1, loader |-> loader, local |-> local, url |-> url,
    project |-> project, saved |-> lastDone ]

handleFileChange(file) ==
  LET ext == ExtOf[file.name] IN
  /\ modelTypeRef' = ext
  /\ currentProjectId' = 0
  /\ pendingNotes' = ""
  /\ editingPartId' = -1
  /\ IF LoaderFor(ext) # ""
       THEN /\ nextLoad < MaxLoads
            /\ loads' = loads \cup { NewLoad(LoaderFor(ext), file.content, NoUrl, NoProject) }
            /\ nextLoad' = nextLoad + 1
            /\ alertMsg' = ""
       ELSE /\ alertMsg' = "Formato no soportado. Usa STL, OBJ, glTF/GLB, PLY o 3MF."
            /\ UNCHANGED <<loads, nextLoad>>
  /\ UNCHANGED <<uiVars, hasModel, visible, position, rotation, parts, projects,
                 modelRef, isMobile, roots, callVars, serverVars>>

handleLoadProject(projectId) ==
  \E i \in DOMAIN projects :
    LET project == projects[i]
        ext == IF project.modelFile \in DOMAIN ExtOf THEN ExtOf[project.modelFile] ELSE "bin"
    IN
    /\ project.id = projectId
    /\ \A j \in 1..(i - 1) : projects[j].id # projectId
    /\ IF project.modelFile = "" \/ project.modelUrl = NoUrl
         THEN /\ alertMsg' = "Este proyecto no tiene modelo asociado."
              /\ UNCHANGED <<modelTypeRef, currentProjectId, pendingNotes,
                             editingPartId, loads, nextLoad>>
         ELSE /\ modelTypeRef' = ext
              /\ currentProjectId' = project.id
              /\ pendingNotes' = project.pendingNotes
              /\ editingPartId' = -1
              /\ IF LoaderFor(ext) # ""
                   THEN /\ nextLoad < MaxLoads
                        /\ loads' = loads \cup
                             { NewLoad(LoaderFor(ext), "", project.modelUrl, project) }
                        /\ nextLoad' = nextLoad + 1
                        /\ alertMsg' = ""
                   ELSE /\ alertMsg' = "Formato no soportado en este proyecto."
                        /\ UNCHANGED <<loads, nextLoad>>
    /\ UNCHANGED <<uiVars, hasModel, visible, position, rotation, parts, projects,
                   modelRef, isMobile, roots, callVars, serverVars>>

(***************************************************************************)
(* Viewer: a load ends                                                     *)
(***************************************************************************)
\* the bytes behind a load: the picked file, or what express.static serves
\* ("" for a 404)
Fetched(l) ==
  IF l.url = NoUrl THEN l.local
  ELSE IF l.url[1] \in DOMAIN pub /\ l.url[2] \in DOMAIN pub[l.url[1]].files
         THEN pub[l.url[1]].files[l.url[2]]
         ELSE ""

\* the loader's success callback: addRootToScene, onLoaded, then the effects
\* on [visible], [position] and [rotation] of the re-render
LoadComplete(l) ==
  /\ l \in loads
  /\ Fetched(l) # ""
  /\ Contents[Fetched(l)].format = LoaderFormat[l.loader]
  /\ \E added \in { addRootToScene(LoadedRoot(l.loader, Fetched(l)), l.id) } :
     \E st \in { IF l.project.id # 0 THEN applyTransformAndMeta(added, l.project)
                  ELSE added } :
        /\ roots' = [ st.roots EXCEPT ![l.id] =
                        RotationEffect(PositionEffect(
                          [ @ EXCEPT !.visible = st.visible ], st.position), st.rotation) ]
        /\ modelRef' = st.modelRef
        /\ hasModel' = st.hasModel
        /\ visible' = st.visible
        /\ position' = st.position
        /\ rotation' = st.rotation
        /\ parts' = st.parts
        /\ editingPartId' = st.editingPartId
        /\ camera' = st.camera
  /\ loads' = loads \ { l }
  /\ alertMsg' = ""
  /\ UNCHANGED <<selectVars, form, projects, currentProjectId, pendingNotes, modelTypeRef, isMobile,
                 nextLoad, callVars, serverVars>>

\* the loader's error callback
LoadFail(l) ==
  /\ l \in loads
  /\ loads' = loads \ { l }
  /\ alertMsg' = "Error al cargar"
  /\ UNCHANGED <<uiVars, viewerState, viewerRefs, roots, nextLoad, callVars, serverVars>>

(***************************************************************************)
(* Viewer: transform controls                                              *)
(***************************************************************************)
\* the inputs the user edits, and the values typed into them
PositionAxes == { "y" }
RotationAxes == { "x" }
PositionInputs == { 5 }
RotationInputs == { 90 }

handlePositionChange(axis, value) ==
  /\ position' = [ position EXCEPT ![axis] = value ]
  /\ roots' = IF modelRef = 0 THEN roots
              ELSE [ roots EXCEPT ![modelRef] = PositionEffect(@, position') ]
  /\ alertMsg' = ""
  /\ UNCHANGED <<uiVars, hasModel, visible, rotation, parts, editingPartId, projects,
                 currentProjectId, pendingNotes, viewerRefs, loads, nextLoad,
                 callVars, serverVars>>

handleRotationChange(axis, value) ==
  /\ rotation' = [ rotation EXCEPT ![axis] = value ]
  /\ roots' = IF modelRef = 0 THEN roots
              ELSE [ roots EXCEPT ![modelRef] = RotationEffect(@, rotation') ]
  /\ alertMsg' = ""
  /\ UNCHANGED <<uiVars, hasModel, visible, position, parts, editingPartId, projects,
                 currentProjectId, pendingNotes, viewerRefs, loads, nextLoad,
                 callVars, serverVars>>

handleResetTransform ==
  /\ modelRef # 0
  /\ position' = Origin
  /\ rotation' = Origin
  /\ roots' = [ roots EXCEPT ![modelRef] =
                  RotationEffect(PositionEffect(
                    [ @ EXCEPT !.position = Origin, !.rotation = Origin ],
                    position'), rotation') ]
  /\ camera' = fitCameraToObject(
                 [ roots[modelRef] EXCEPT !.position = Origin, !.rotation = Origin ])
  /\ alertMsg' = ""
  /\ UNCHANGED <<selectVars, form, hasModel, visible, parts, editingPartId, projects,
                 currentProjectId, pendingNotes, viewerRefs, loads, nextLoad,
                 callVars, serverVars>>

(***************************************************************************)
(* Viewer: the Three.js effect on [isMobile]                               *)
(***************************************************************************)
\* window.innerWidth crosses 768: the cleanup disposes every mesh of the scene
\* and the effect builds a new renderer and a new, empty scene
Remount ==
  /\ isMobile' = ~isMobile
  /\ roots' = [ id \in DOMAIN roots |->
                  IF roots[id].scene = "current"
                    THEN [ roots[id] EXCEPT !.scene = "old", !.disposed = TRUE ]
                    ELSE roots[id] ]
  /\ camera' = InitCamera
  /\ alertMsg' = ""
  /\ UNCHANGED <<selectVars, form, viewerState, modelRef, modelTypeRef, loads, nextLoad,
                 callVars, serverVars>>

(***************************************************************************)
(* Initial state: the page has mounted and fetched the project list        *)
(***************************************************************************)
NoHttp == [ req |-> [ kind |-> "", id |-> 0, password |-> "", body |-> << >> ],
            status |-> 0, projectId |-> 0, upload |-> "none" ]

Init ==
  /\ modelRef = 0
  /\ modelTypeRef = "generic"
  /\ isMobile = FALSE
  /\ hasModel = FALSE
  /\ visible = TRUE
  /\ position = Origin
  /\ rotation = Origin
  /\ parts = << >>
  /\ editingPartId = -1
  /\ projects = GetProjects(InitDb)
  /\ currentProjectId = 0
  /\ pendingNotes = ""
  /\ roots = << >>
  /\ loads = { }
  /\ nextLoad = 0
  /\ calls = { }
  /\ lastDone = NoCall
  /\ nextCall = 0
  /\ alertMsg = ""
  /\ db = InitDb
  /\ pub = InitPub
  /\ lastHttp = NoHttp
  /\ handlers = << >>
  /\ camera = InitCamera
  /\ selectedPartInfo = NoInfo
  /\ timers = { }
  /\ age = 0
  /\ form = EmptyForm
  /\ quote = ClosedQuote

(***************************************************************************)
(* SpecLoad: the viewer loading, placing and re-creating models            *)
(***************************************************************************)
NextLoad ==
  \/ \E file \in LocalFiles : handleFileChange(file)
  \/ \E i \in DOMAIN projects : handleLoadProject(projects[i].id)
  \/ \E l \in loads : LoadComplete(l)
  \/ \E l \in loads : LoadFail(l)
  \/ \E axis \in PositionAxes, value \in PositionInputs : handlePositionChange(axis, value)
  \/ \E axis \in RotationAxes, value \in RotationInputs : handleRotationChange(axis, value)
  \/ handleResetTransform
  \/ Remount

SpecLoad == Init /\ [][NextLoad]_vars

(***************************************************************************)
(* SpecServer: the server under requests of any HTTP client                *)
(***************************************************************************)
\* projects the store may hold at one time
MaxProjects == 3

Request(kind, id, password, body) ==
  [ kind |-> kind, id |-> id, password |-> password, body |-> body ]

RequestIds == { 2, 9 }
RequestPasswords == { "", "abc123", "nope" }
UploadGlb == [ name |-> "ROBOT.GLB", content |-> "treeB" ]
RequestKinds ==
  { "create", "model", "transform", "rename", "notes", "parts-meta", "delete" }
RequestBodies(kind) ==
  CASE kind = "create" -> { [ file |-> UploadGlb, projectName |-> "Soporte" ],
                            [ projectName |-> "Soporte" ],
                            [ file |-> UploadGlb ] }
    [] kind = "model" -> { [ file |-> UploadGlb ], << >> }
    [] kind = "transform" -> { [ position |-> Vec(5, 0, 0), rotation |-> Vec(0, 90, 0) ] }
    [] kind = "rename" -> { [ name |-> "Soporte" ], [ name |-> "" ] }
    [] kind = "notes" -> { [ notes |-> "urgente" ] }
    [] kind = "parts-meta" -> { [ partId |-> 0, color |-> "#123456" ],
                                [ color |-> "#123456" ] }
    [] OTHER -> { << >> }

Requests ==
  UNION { { Request(kind, id, password, body) :
              id \in RequestIds, password \in RequestPasswords,
              body \in RequestBodies(kind) } : kind \in RequestKinds }

\* the server takes one request and answers it
ServerRequest(req) ==
  LET r == Handle(db, pub, req) IN
  /\ req.kind = "create" => Len(db) < MaxProjects
  /\ db' = r.db
  /\ pub' = r.pub
  /\ lastHttp' = [ req |-> req, status |-> r.status, projectId |-> r.projectId,
                   upload |-> UploadAfter(req, r.status) ]
  /\ UNCHANGED <<uiVars, viewerState, viewerRefs, renderVars, callVars, alertMsg, handlers>>

NextServer == \E req \in Requests : ServerRequest(req)

SpecServer == Init /\ [][NextServer]_vars

(***************************************************************************)
(* Viewer: editing parts and notes                                         *)
(***************************************************************************)
\* (a repaint whose in-place branch leaves transparent as it was)
RECURSIVE MutRepaint(_, _, _, _)
MutRepaint(n, partId, colorHex, presetKey) ==
  LET presetName == Or(presetKey, "plastic")
      preset == PresetOrPlastic(presetName)
      color == Or(colorHex, "#ffffff")
      self ==
        IF n.isMesh /\ n.partId = partId
          THEN [ n EXCEPT
                   !.material =
                     IF ~n.material.isMeshPhongMaterial
                       THEN createMaterialForPart(color, presetName)
                       ELSE [ @ EXCEPT !.color = color,
                                       !.shininess = preset.shininess,
                                       !.specular = preset.specular,
                                       !.opacity = preset.opacity ],
                   !.baseColor = color,
                   !.materialPreset = presetName ]
          ELSE n
  IN [ self EXCEPT !.kids = [ i \in DOMAIN n.kids |->
                                MutRepaint(n.kids[i], partId, colorHex, presetKey) ] ]

\* updatePartMeshAppearance on the nodes of a tree
RECURSIVE Repaint(_, _, _, _)
Repaint(n, partId, colorHex, presetKey) ==
  LET presetName == Or(presetKey, "plastic")
      preset == PresetOrPlastic(presetName)
      color == Or(colorHex, "#ffffff")
      self ==
        IF n.isMesh /\ n.partId = partId
          THEN [ n EXCEPT
                   !.material =
                     IF ~n.material.isMeshPhongMaterial
                       THEN createMaterialForPart(color, presetName)
                       ELSE [ @ EXCEPT !.color = color,
                                       !.shininess = preset.shininess,
                                       !.specular = preset.specular,
                                       !.opacity = preset.opacity,
                                       !.transparent = preset.transparent ],
                   !.baseColor = color,
                   !.materialPreset = presetName ]
          ELSE n
  IN [ self EXCEPT !.kids = [ i \in DOMAIN n.kids |->
                                Repaint(n.kids[i], partId, colorHex, presetKey) ] ]

updatePartMeshAppearance(partId, colorHex, presetKey) ==
  IF modelRef = 0 THEN roots
  ELSE [ roots EXCEPT ![modelRef].tree = Repaint(@, partId, colorHex, presetKey) ]

\* the parts the user edits and the colour picked, the notes typed
PartInputs == { 0, 2 }
ColorInputs == { "#123456" }
NotesInputs == { "urgente" }

\* partsRef.current.find((p) => p.id === id)?.materialPreset || "plastic"
PresetOfPart(id) ==
  IF \E i \in DOMAIN parts : parts[i].id = id
    THEN Or(parts[CHOOSE i \in DOMAIN parts : parts[i].id = id].materialPreset, "plastic")
    ELSE "plastic"

handleChangePartColor(id, newColor) ==
  /\ \E i \in DOMAIN parts : parts[i].id = id
  /\ parts' = [ i \in DOMAIN parts |->
                  IF parts[i].id = id THEN [ parts[i] EXCEPT !.color = newColor ]
                  ELSE parts[i] ]
  /\ roots' = updatePartMeshAppearance(id, newColor, PresetOfPart(id))
  /\ alertMsg' = ""
  /\ UNCHANGED <<uiVars, hasModel, visible, position, rotation, editingPartId, projects,
                 currentProjectId, pendingNotes, viewerRefs, loads, nextLoad,
                 callVars, serverVars>>

\* the onChange of the pending-notes textarea
setPendingNotes(value) ==
  /\ currentProjectId # 0
  /\ pendingNotes' = value
  /\ alertMsg' = ""
  /\ UNCHANGED <<uiVars, hasModel, visible, position, rotation, parts, editingPartId,
                 projects, currentProjectId, viewerRefs, renderVars, callVars,
                 serverVars>>

(***************************************************************************)
(* Viewer: store calls.  A call is the fetch of one handler:               *)
(*   pc "sent"     the request is on its way to the server                 *)
(*   pc "answered" the response is on its way back                         *)
(*   pc "refresh"  the handler awaits loadProjectsFromServer               *)
(* current is the currentProjectId the handler's closure holds.            *)
(***************************************************************************)
Call(kind, pid, password, body) ==
  [ id |-> nextCall + 1, kind |-> kind, pid |-> pid, password |-> password,
    body |-> body, pc |-> "sent", status |-> 0, projectId |-> 0,
    current |-> currentProjectId ]

\* the handler has sent its request
Send(c) ==
  /\ nextCall < MaxCalls
  /\ calls' = calls \cup { c }
  /\ nextCall' = nextCall + 1
  /\ alertMsg' = ""
  /\ UNCHANGED <<camera, selectVars, viewerState, viewerRefs, renderVars, lastDone,
                 serverVars>>

\* the handler returns without a request, after an alert (msg) or silently ("")
AlertOnly(msg) ==
  /\ alertMsg' = msg
  /\ UNCHANGED <<camera, selectVars, viewerState, viewerRefs, renderVars, callVars,
                 serverVars>>

\* if (!pwd) return;  (window.prompt gives null when it is cancelled)
MutPromptCancelled(pwd) == FALSE
PromptCancelled(pwd) == pwd = ""

Passwords == { "abc123", "nope" }

\* what the new-project form holds when it is submitted
CreateForms ==
  { [ name |-> "Soporte", author |-> "ana", date |-> "2024-02-02",
      password |-> pw, file |-> UploadGlb, useCurrentTransform |-> TRUE ] :
    pw \in { "abc123", "" } }

\* partsMetaToSave: JSON object keys are the strings of the part ids
PartsMetaToSave ==
  [ k \in { String(parts[i].id) : i \in DOMAIN parts } |->
      LET p == parts[CHOOSE i \in DOMAIN parts : String(parts[i].id) = k]
      IN Entry(p.name, Or(p.notes, ""), p.color, p.materialPreset) ]

handleCreateProject(formData) ==
  IF formData.name = "" \/ formData.password = "" \/ formData.file = NoFile
    THEN AlertOnly("Nombre, contraseña y archivo de modelo son obligatorios.")
    ELSE Send(Call("create", 0, formData.password,
                   [ file |-> formData.file,
                     projectName |-> formData.name,
                     author |-> Or(formData.author, ""),
                     date |-> Or(formData.date, ""),
                     position |-> IF formData.useCurrentTransform THEN position ELSE Origin,
                     rotation |-> IF formData.useCurrentTransform THEN rotation ELSE Origin,
                     partsMeta |-> PartsMetaToSave ]))

handleReplaceModel(projectId, file) ==
  /\ Send(Call("model", projectId, "", [ file |-> file ]))
  /\ UNCHANGED form

handleDeleteProject(projectId, passwordPlain) ==
  /\ IF PromptCancelled(passwordPlain) THEN AlertOnly("")
     ELSE Send(Call("delete", projectId, passwordPlain, << >>))
  /\ UNCHANGED form

handleUpdateProjectTransform(projectId, pwd) ==
  /\ IF PromptCancelled(pwd) THEN AlertOnly("")
     ELSE Send(Call("transform", projectId, pwd,
                    [ position |-> position, rotation |-> rotation ]))
  /\ UNCHANGED form

handleRenameProject(projectId, newName, pwd) ==
  /\ IF newName = "" \/ PromptCancelled(pwd) THEN AlertOnly("")
     ELSE Send(Call("rename", projectId, pwd, [ name |-> newName ]))
  /\ UNCHANGED form

handleSavePendingNotes(pwd) ==
  /\ IF currentProjectId = 0
       THEN AlertOnly("Primero carga o guarda un proyecto para asociar las notas.")
     ELSE IF PromptCancelled(pwd) THEN AlertOnly("")
     ELSE Send(Call("notes", currentProjectId, pwd, [ notes |-> Or(pendingNotes, "") ]))
  /\ UNCHANGED form

handleSavePartMeta(partId, pwd) ==
  /\ IF currentProjectId = 0
       THEN AlertOnly("Primero guarda este modelo como proyecto para poder guardar notas.")
     ELSE IF ~(\E i \in DOMAIN parts : parts[i].id = partId) \/ PromptCancelled(pwd)
       THEN AlertOnly("")
     ELSE LET part == parts[CHOOSE i \in DOMAIN parts : parts[i].id = partId]
          IN Send(Call("parts-meta", currentProjectId, pwd,
                       [ partId |-> partId,
                         name |-> part.name,
                         notes |-> Or(part.notes, ""),
                         color |-> Or(part.color, "#22c55e"),
                         materialPreset |-> Or(part.materialPreset, "plastic") ]))
  /\ UNCHANGED form

\* ProjectManagerModal: the onChange of a field of the new-project form
\* (the author, which is optional, is left empty)
FormFields == { "name", "password", "file" }
FormInputs ==
  [ name |-> { "Soporte" }, password |-> { "abc123" }, file |-> { UploadGlb } ]
FormChange(field, value) ==
  /\ form' = [ form EXCEPT ![field] = value ]
  /\ form' # form
  /\ alertMsg' = ""
  /\ UNCHANGED <<camera, selectVars, viewerState, viewerRefs, renderVars, callVars,
                 serverVars>>

\* ProjectManagerModal.handleSubmit: onCreateProject with the fields, then
\* the fields are set back
handleSubmit ==
  IF form.name = "" \/ form.password = "" \/ form.file = NoFile
    THEN /\ AlertOnly("Nombre, contraseña y archivo de modelo son obligatorios.")
         /\ UNCHANGED form
    ELSE /\ handleCreateProject(
              [ name |-> form.name, author |-> form.author, date |-> "2024-02-02",
                password |-> form.password, file |-> form.file,
                useCurrentTransform |-> TRUE ])
         /\ form' = EmptyForm

\* the server handles the request of call c
ServerHandle(c) ==
  LET req == Request(c.kind, c.pid, c.password, c.body)
      r == Handle(db, pub, req)
  IN /\ c \in calls
     /\ c.pc = "sent"
     /\ c.kind = "create" => Len(db) < MaxProjects
     /\ db' = r.db
     /\ pub' = r.pub
     /\ lastHttp' = [ req |-> req, status |-> r.status, projectId |-> r.projectId,
                      upload |-> UploadAfter(req, r.status) ]
     /\ calls' = (calls \ { c }) \cup
                   { [ c EXCEPT !.pc = "answered", !.status = r.status,
                                !.projectId = r.projectId ] }
     /\ alertMsg' = ""
     /\ UNCHANGED <<uiVars, viewerState, viewerRefs, renderVars, lastDone, nextCall, handlers>>

\* fse.ensureDir rejects in POST /api/projects or PUT .../model: the catch
\* block answers 500 before anything was written
ServerFault(c) ==
  /\ c \in calls
  /\ c.pc = "sent"
  /\ c.kind \in { "create", "model" }
  /\ "file" \in DOMAIN c.body
  /\ c.kind = "model" => FindIndex(db, c.pid) # 0
  /\ lastHttp' = [ req |-> Request(c.kind, c.pid, c.password, c.body),
                   status |-> 500, projectId |-> 0,
                   upload |-> UploadAfter(Request(c.kind, c.pid, c.password, c.body), 500) ]
  /\ calls' = (calls \ { c }) \cup { [ c EXCEPT !.pc = "answered", !.status = 500 ] }
  /\ alertMsg' = ""
  /\ UNCHANGED <<uiVars, viewerState, viewerRefs, renderVars, lastDone, nextCall, db, pub,
                 handlers>>

\* resp.ok && data.ok
MutResponseOk(status) == TRUE
ResponseOk(status) == status = 200

\* data.error of the response
ErrorOf(status) ==
  CASE status = 403 -> "Contraseña incorrecta."
    [] status = 404 -> "Proyecto no encontrado."
    [] status = 500 -> "Error interno."
    [] OTHER -> "La contraseña es obligatoria."

Done(c, ok, refetched) ==
  [ kind |-> c.kind, ok |-> ok, refetched |-> refetched, pid |-> c.pid,
    body |-> c.body ]

\* the handler resumes with the response of its request
Receive(c) ==
  /\ c \in calls
  /\ c.pc = "answered"
  /\ IF ~ResponseOk(c.status)
       THEN /\ alertMsg' = IF c.kind = "model"
                             THEN "No se pudo reemplazar el modelo en el servidor."
                             ELSE ErrorOf(c.status)
            /\ calls' = calls \ { c }
            /\ lastDone' = Done(c, FALSE, FALSE)
            /\ UNCHANGED <<currentProjectId, pendingNotes>>
       ELSE IF c.kind = "parts-meta"
         THEN /\ alertMsg' = "Notas, color y material de la capa guardados."
              /\ calls' = calls \ { c }
              /\ lastDone' = Done(c, TRUE, FALSE)
              /\ UNCHANGED <<currentProjectId, pendingNotes>>
         ELSE /\ IF c.kind = "delete" /\ c.current = c.pid
                   THEN currentProjectId' = 0 /\ pendingNotes' = ""
                   ELSE UNCHANGED <<currentProjectId, pendingNotes>>
              /\ calls' = (calls \ { c }) \cup { [ c EXCEPT !.pc = "refresh" ] }
              /\ alertMsg' = ""
              /\ UNCHANGED lastDone
  /\ UNCHANGED <<uiVars, hasModel, visible, position, rotation, parts, editingPartId,
                 projects, viewerRefs, renderVars, nextCall, serverVars>>

SuccessText ==
  [ k \in RequestKinds |->
      CASE k = "create" -> "Proyecto creado y carpeta generada en /public."
        [] k = "model" -> "Modelo reemplazado correctamente."
        [] k = "delete" -> "Proyecto eliminado."
        [] k = "transform" -> "Posición/rotación guardadas en el proyecto."
        [] k = "rename" -> "Proyecto renombrado."
        [] OTHER -> "Notas pendientes guardadas." ]

\* loadProjectsFromServer has fetched the list; the handler ends
Refresh(c) ==
  /\ c \in calls
  /\ c.pc = "refresh"
  /\ projects' = GetProjects(db)
  /\ currentProjectId' = IF c.kind = "create" THEN c.projectId ELSE currentProjectId
  /\ alertMsg' = SuccessText[c.kind]
  /\ calls' = calls \ { c }
  /\ lastDone' = Done(c, TRUE, TRUE)
  /\ UNCHANGED <<uiVars, hasModel, visible, position, rotation, parts, editingPartId,
                 pendingNotes, viewerRefs, renderVars, nextCall, serverVars>>

(***************************************************************************)
(* SpecSync: the viewer and the server, store calls and project loads      *)
(***************************************************************************)
ListedIds == { projects[i].id : i \in DOMAIN projects }

NextSync ==
  \/ \E id \in ListedIds : handleLoadProject(id)
  \/ \E l \in loads : LoadComplete(l)
  \/ \E id \in PartInputs, color \in ColorInputs : handleChangePartColor(id, color)
  \/ \E value \in NotesInputs : setPendingNotes(value)
  \/ \E formData \in CreateForms : handleCreateProject(formData) /\ form' = EmptyForm
  \/ \E id \in ListedIds : handleReplaceModel(id, UploadGlb)
  \/ \E id \in ListedIds, pwd \in Passwords : handleDeleteProject(id, pwd)
  \/ \E id \in ListedIds, pwd \in Passwords : handleUpdateProjectTransform(id, pwd)
  \/ \E id \in ListedIds, pwd \in Passwords : handleRenameProject(id, "Soporte", pwd)
  \/ \E pwd \in Passwords : handleSavePendingNotes(pwd)
  \/ \E id \in PartInputs, pwd \in Passwords : handleSavePartMeta(id, pwd)
  \/ \E c \in calls : ServerHandle(c)
  \/ \E c \in calls : ServerFault(c)
  \/ \E c \in calls : Receive(c)
  \/ \E c \in calls : Refresh(c)

SpecSync == Init /\ [][NextSync]_vars

(***************************************************************************)
(* Properties                                                              *)
(***************************************************************************)
\* a load whose success callback runs in this step
Completes(l) == l \in loads /\ l \notin loads' /\ l.id \in DOMAIN roots' /\ l.id \notin DOMAIN roots

\* C1: load supersession. When load A was started before load B and B has
\* already completed, A's later completion changes neither the active
\* SceneRoot nor the Part sequence nor the position and rotation B set.
C1_LoadSupersession ==
  [][ \A a \in loads :
        (Completes(a) /\ \E b \in DOMAIN roots : b > a.id)
          => /\ modelRef' = modelRef
             /\ parts' = parts
             /\ position' = position
             /\ rotation' = rotation ]_vars

\* paths (child indices from the root) of the mesh nodes of a tree
RECURSIVE MeshPaths(_)
MeshPaths(n) ==
  (IF n.isMesh THEN { << >> } ELSE { })
    \cup UNION { { << i >> \o p : p \in MeshPaths(n.kids[i]) } : i \in DOMAIN n.kids }
RECURSIVE NodeAt(_, _)
NodeAt(n, path) == IF path = << >> THEN n ELSE NodeAt(n.kids[Head(path)], Tail(path))
\* p is met before q in a depth-first, parent-first, left-to-right walk
Before(p, q) ==
  /\ p # q
  /\ \/ Len(p) < Len(q) /\ SubSeq(q, 1, Len(p)) = p
     \/ \E i \in 1..Min2(Len(p), Len(q)) :
          /\ SubSeq(p, 1, i - 1) = SubSeq(q, 1, i - 1)
          /\ p[i] < q[i]
RECURSIVE AllPaths(_)
AllPaths(n) ==
  { << >> } \cup UNION { { << i >> \o p : p \in AllPaths(n.kids[i]) } : i \in DOMAIN n.kids }

\* C2: for the active SceneRoot with M mesh nodes the Part sequence has
\* exactly M parts with ids 0..M-1 in order, the mesh met k-th in depth-first
\* traversal is stamped with id k, and only meshes are stamped.
C2_PartIndexer ==
  modelRef # 0 =>
    LET tree == roots[modelRef].tree
        mp == MeshPaths(tree)
    IN /\ Len(parts) = Cardinality(mp)
       /\ \A k \in DOMAIN parts : parts[k].id = k - 1
       /\ \A p \in mp :
            NodeAt(tree, p).partId = Cardinality({ q \in mp : Before(q, p) })
       /\ \A p \in AllPaths(tree) \ mp : NodeAt(tree, p).partId = -1

\* a root with meshes at several depths behind a group is indexed
C2_Witness ==
  /\ modelRef # 0
  /\ Len(parts) = 4
  /\ roots[modelRef].tree.kids[2].isMesh = FALSE
  /\ roots[modelRef].tree.kids[2].kids[2].partId = 2
  /\ roots[modelRef].tree.kids[3].partId = 3

\* the Part sequence updatePartsFromRoot hands over for the root of load l
FreshParts(l) == updatePartsFromRoot(LoadedRoot(l.loader, Fetched(l)).tree).parts

MetaFields == { "name", "notes", "color", "materialPreset" }

\* C3 as the spec states it: after applyProjectPartsMeta the list has the
\* same length, a part whose id has an entry takes every field present in
\* the entry and keeps its own value only for the fields absent from it, and
\* a part with no entry is unchanged.
C3_MetaReconciler_AsStated ==
  [][ \A l \in loads :
        (Completes(l) /\ l.project.id # 0) =>
          LET prev == FreshParts(l)
              meta == l.project.partsMeta
          IN /\ Len(parts') = Len(prev)
             /\ \A i \in DOMAIN prev :
                  IF HasMetaEntry(meta, prev[i].id)
                    THEN /\ \A f \in MetaFields :
                              parts'[i][f] =
                                IF f \in DOMAIN MetaEntry(meta, prev[i].id)
                                  THEN MetaEntry(meta, prev[i].id)[f]
                                  ELSE prev[i][f]
                         /\ parts'[i].id = prev[i].id
                         /\ parts'[i].visible = prev[i].visible
                    ELSE parts'[i] = prev[i] ]_vars

\* C3 amended: as above, but name, color and materialPreset are taken from
\* the entry only when present and non-empty (notes whenever present), and
\* otherwise stay the part's own.
C3_MetaReconciler ==
  [][ \A l \in loads :
        (Completes(l) /\ l.project.id # 0) =>
          LET prev == FreshParts(l)
              meta == l.project.partsMeta
          IN /\ Len(parts') = Len(prev)
             /\ \A i \in DOMAIN prev :
                  IF HasMetaEntry(meta, prev[i].id)
                    THEN /\ \A f \in MetaFields :
                              parts'[i][f] =
                                IF /\ f \in DOMAIN MetaEntry(meta, prev[i].id)
                                   /\ (f = "notes" \/ MetaEntry(meta, prev[i].id)[f] # "")
                                  THEN MetaEntry(meta, prev[i].id)[f]
                                  ELSE prev[i][f]
                         /\ parts'[i].id = prev[i].id
                         /\ parts'[i].visible = prev[i].visible
                    ELSE parts'[i] = prev[i] ]_vars

\* a project load has completed whose partsMeta has a full entry (part 0),
\* no entry (parts 1, 3) and an entry with an empty name (part 2)
C3_Witness ==
  /\ modelRef # 0
  /\ Len(parts) = 4
  /\ parts[1].name = "Base" /\ parts[1].materialPreset = "metal"
  /\ parts[2].color = getPartColor(1)
  /\ parts[3].name = "tapa" /\ parts[3].color = "#00ff00"

\* C9: ground-snapping. Whenever the active model was loaded from an STL
\* (with a non-empty geometry), the minimum Y of its world bounding box is 0
\* once the effects of the last change have run.
C9_GroundSnapping ==
  (modelRef # 0 /\ roots[modelRef].format = "STL" /\ ~roots[modelRef].box.empty)
    => WorldBox(roots[modelRef]).min.y = 0

\* C10: resource bound. At most one SceneRoot is attached to the scene, every
\* root other than the active one is detached and disposed, and once two
\* loads have completed exactly one SceneRoot holds live resources.
C10_ResourceBound ==
  /\ Cardinality({ id \in DOMAIN roots : roots[id].scene = "current" }) <= 1
  /\ \A id \in DOMAIN roots :
       id # modelRef => roots[id].disposed /\ roots[id].scene # "current"
  /\ Cardinality(DOMAIN roots) >= 2 =>
       Cardinality({ id \in DOMAIN roots : ~roots[id].disposed }) = 1

\* the server has answered a request in this step
Answered == lastHttp' # lastHttp \/ db' # db \/ pub' # pub
\* the stored project a request addresses exists / is opened by its password
Addressed(r) == \E i \in DOMAIN db : String(db[i].id) = String(r.id)
Authorized(r) ==
  \E i \in DOMAIN db :
    /\ String(db[i].id) = String(r.id)
    /\ db[i].passwordHash = hashPassword(r.password)

\* C6: a mutating request on an existing project changes the stored record
\* or the asset directory only if it carries a password whose hash equals
\* the project's stored hash.
C6_PasswordRequired ==
  [][ ( /\ lastHttp'.req.kind \in { "model", "transform", "rename", "notes",
                                    "parts-meta", "delete" }
        /\ (db' # db \/ pub' # pub) )
        => Authorized(lastHttp'.req) ]_vars

GuardedKinds == { "transform", "rename", "notes", "parts-meta", "delete" }

\* C7 as the spec states it: no password answers 400, otherwise an unknown
\* id answers 404, otherwise a wrong password answers 403, and in the three
\* cases the store and the list GET returns are unchanged.
C7_Rejections_AsStated ==
  [][ (Answered /\ lastHttp'.req.kind \in GuardedKinds) =>
        LET r == lastHttp'.req
            status == lastHttp'.status
        IN /\ r.password = "" => status = 400
           /\ (r.password # "" /\ ~Addressed(r)) => status = 404
           /\ (r.password # "" /\ Addressed(r) /\ ~Authorized(r)) => status = 403
           /\ status \in { 400, 403, 404 } =>
                /\ db' = db /\ pub' = pub
                /\ GetProjects(db') = GetProjects(db) ]_vars

\* a required field of the request is missing: the password, the new name of
\* a rename, the partId of a parts-meta
MissingField(r) ==
  \/ r.password = ""
  \/ r.kind = "rename" /\ BodyOr(r.body, "name", "") = ""
  \/ r.kind = "parts-meta" /\ "partId" \notin DOMAIN r.body

\* C7 amended: a request with a required field missing (the password, the
\* name of a rename, the partId of a parts-meta) answers 400, otherwise an
\* unknown id answers 404, otherwise a wrong password answers 403, and in
\* the three cases the store and the list GET returns are unchanged.
C7_Rejections ==
  [][ (Answered /\ lastHttp'.req.kind \in GuardedKinds) =>
        LET r == lastHttp'.req
            status == lastHttp'.status
        IN /\ MissingField(r) => status = 400
           /\ (~MissingField(r) /\ ~Addressed(r)) => status = 404
           /\ (~MissingField(r) /\ Addressed(r) /\ ~Authorized(r)) => status = 403
           /\ status \in { 400, 403, 404 } =>
                /\ db' = db /\ pub' = pub
                /\ GetProjects(db') = GetProjects(db) ]_vars

\* a transform update with a wrong password was refused after the position
\* of the project had been changed by an authorized update
C7_Witness ==
  /\ lastHttp.req.kind = "transform"
  /\ lastHttp.req.password = "nope"
  /\ lastHttp.status = 403
  /\ \E i \in DOMAIN db : db[i].id = 2 /\ db[i].position = Vec(5, 0, 0)

\* the handler of call c ends in this step
Finishes(c) == c \in calls /\ c.id \notin { d.id : d \in calls' }

\* the stored project with this id, as GET /api/projects lists it
Listed(store, id) == GetProjects(store)[FindIndex(store, id)]

\* C4: round trip of part metadata. When a project load completes that was
\* started after a successful save of part k of that project, and the store
\* still holds what was saved, part k shows the saved color, name, notes and
\* materialPreset and every other part shows what the store holds for it.
C4_PartMetaRoundTrip ==
  [][ \A l \in loads :
        ( /\ Completes(l)
          /\ l.saved.kind = "parts-meta"
          /\ l.saved.ok
          /\ l.saved.pid = l.project.id
          /\ FindIndex(db, l.saved.pid) # 0
          /\ HasMetaEntry(Listed(db, l.saved.pid).partsMeta, l.saved.body.partId)
          /\ MetaEntry(Listed(db, l.saved.pid).partsMeta, l.saved.body.partId)
               = [ f \in MetaFields |-> l.saved.body[f] ] )
        => \A i \in DOMAIN parts' :
             IF parts'[i].id = l.saved.body.partId
               THEN \A f \in MetaFields : parts'[i][f] = l.saved.body[f]
               ELSE parts'[i] =
                      applyProjectPartsMeta(Listed(db, l.saved.pid), FreshParts(l))[i]
    ]_vars

\* C5: a store call that ended with a success response has re-fetched the
\* project list before it ended, and the cached list is the stored one.
C5_RefreshOnSuccess ==
  [][ \A c \in calls :
        (Finishes(c) /\ lastDone'.ok) =>
          /\ lastDone'.refetched
          /\ projects' = GetProjects(db') ]_vars

\* the viewer's local state
localState == <<projects, currentProjectId, pendingNotes, parts, position,
                rotation, modelRef, roots>>

\* C8: when a store call is answered with a non-success response, the step
\* in which its handler takes the response leaves the cached project list,
\* currentProjectId, pendingNotes, parts, position, rotation and the active
\* SceneRoot as they were and shows an alert.
C8_FailureLeavesLocalState ==
  [][ \A c \in calls :
        (c.pc = "answered" /\ c.status # 200 /\ c \notin calls')
          => (UNCHANGED localState /\ alertMsg' # "") ]_vars

\* a delete of the loaded project was refused: the project is still the
\* current one, its model is shown and the refusal was alerted
C8_Witness ==
  /\ lastDone.kind = "delete"
  /\ ~lastDone.ok
  /\ lastHttp.status = 403
  /\ currentProjectId = lastDone.pid
  /\ modelRef # 0
  /\ alertMsg = "Contraseña incorrecta."

(***************************************************************************)
(* C11: the steps of a project load                                        *)
(***************************************************************************)
\* C11: a project load fits the camera last, after the saved metadata and the
\* saved transform have been applied: when the load has completed, the camera
\* frames the active root as it then stands (its target is the centre of the
\* root's box under the saved position and rotation).
C11_CameraFittedLast ==
  [][ \A l \in loads :
        (l.project.id # 0 /\ LoadComplete(l))
          => camera' = fitCameraToObject(roots'[modelRef']) ]_vars

(***************************************************************************)
(* SpecParts: the layers panel (colour, material and visibility of parts)  *)
(***************************************************************************)
\* typeof child.userData.partId === "number"
MutIsStamped(n) == n.partId > 0
IsStamped(n) == n.partId # -1

\* modelRef.current.traverse((child) => { if (child.isMesh && ...) child.visible = value })
\* for every stamped mesh (all) or for the meshes of part id
RECURSIVE ShowMeshes(_, _, _, _)
ShowMeshes(n, all, id, value) ==
  LET self == IF n.isMesh /\ (IF all THEN IsStamped(n) ELSE n.partId = id)
                THEN [ n EXCEPT !.visible = value ]
                ELSE n
  IN [ self EXCEPT !.kids = [ i \in DOMAIN n.kids |->
                                ShowMeshes(n.kids[i], all, id, value) ] ]

\* the preset picked in the material select of a layer
PresetInputs == { "glass" }

\* partsRef.current.find((p) => p.id === id)?.color || "#ffffff"
ColorOfPart(id) ==
  IF \E i \in DOMAIN parts : parts[i].id = id
    THEN Or(parts[CHOOSE i \in DOMAIN parts : parts[i].id = id].color, "#ffffff")
    ELSE "#ffffff"

handleChangePartMaterial(id, newPreset) ==
  /\ \E i \in DOMAIN parts : parts[i].id = id
  /\ parts' = [ i \in DOMAIN parts |->
                  IF parts[i].id = id THEN [ parts[i] EXCEPT !.materialPreset = newPreset ]
                  ELSE parts[i] ]
  /\ roots' = updatePartMeshAppearance(id, ColorOfPart(id), newPreset)
  /\ alertMsg' = ""
  /\ UNCHANGED <<uiVars, hasModel, visible, position, rotation, editingPartId, projects,
                 currentProjectId, pendingNotes, viewerRefs, loads, nextLoad,
                 callVars, serverVars>>

\* the buttons "Mostrar todo" and "Ocultar todo"
setAllPartsVisible(value) ==
  /\ parts # << >>
  /\ parts' = [ i \in DOMAIN parts |-> [ parts[i] EXCEPT !.visible = value ] ]
  /\ roots' = IF modelRef = 0 THEN roots
              ELSE [ roots EXCEPT ![modelRef].tree = ShowMeshes(@, TRUE, -1, value) ]
  /\ alertMsg' = ""
  /\ UNCHANGED <<uiVars, hasModel, visible, position, rotation, editingPartId, projects,
                 currentProjectId, pendingNotes, viewerRefs, loads, nextLoad,
                 callVars, serverVars>>

\* the checkbox of a layer
handleTogglePartVisible(id, checked) ==
  /\ \E i \in DOMAIN parts : parts[i].id = id
  /\ parts' = [ i \in DOMAIN parts |->
                  IF parts[i].id = id THEN [ parts[i] EXCEPT !.visible = checked ]
                  ELSE parts[i] ]
  /\ roots' = IF modelRef = 0 THEN roots
              ELSE [ roots EXCEPT ![modelRef].tree = ShowMeshes(@, FALSE, id, checked) ]
  /\ alertMsg' = ""
  /\ UNCHANGED <<uiVars, hasModel, visible, position, rotation, editingPartId, projects,
                 currentProjectId, pendingNotes, viewerRefs, loads, nextLoad,
                 callVars, serverVars>>

NextParts ==
  \/ \E id \in ListedIds : handleLoadProject(id)
  \/ \E l \in loads : LoadComplete(l)
  \/ \E id \in PartInputs, newColor \in ColorInputs : handleChangePartColor(id, newColor)
  \/ \E id \in PartInputs, newPreset \in PresetInputs : handleChangePartMaterial(id, newPreset)
  \/ \E value \in BOOLEAN : setAllPartsVisible(value)
  \/ \E id \in PartInputs, checked \in BOOLEAN : handleTogglePartVisible(id, checked)

SpecParts == Init /\ [][NextParts]_vars

\* the part of UI state with the id a mesh is stamped with
PartOf(n) == parts[CHOOSE i \in DOMAIN parts : parts[i].id = n.partId]
\* the stamped meshes of the active model, as nodes
StampedMeshes ==
  IF modelRef = 0 THEN { }
  ELSE { NodeAt(roots[modelRef].tree, path) : path \in MeshPaths(roots[modelRef].tree) }

\* C12: each mesh of the active model is drawn with the colour and with the
\* material preset of the Part that has its id: the material's colour is the
\* Part's color and its shininess, specular, transparency and opacity are
\* those of the Part's materialPreset.
C12_AppearanceConsistent ==
  \A n \in StampedMeshes :
    (\E i \in DOMAIN parts : parts[i].id = n.partId)
      => /\ n.material.color = PartOf(n).color
         /\ LET preset == PresetOrPlastic(PartOf(n).materialPreset) IN
              /\ n.material.shininess = preset.shininess
              /\ n.material.specular = preset.specular
              /\ n.material.transparent = preset.transparent
              /\ n.material.opacity = preset.opacity

(***************************************************************************)
(* SpecSelect: clicks on the canvas and the banner of the selected part    *)
(***************************************************************************)
\* setTimeout(..., 4000), in seconds
DisplaySeconds == 4

\* what a ray can meet in the scene: the meshes of the active model, given by
\* their paths, and the grid helper
Grid == << -1 >>
Targets ==
  { Grid } \cup
  ( IF modelRef # 0 /\ roots[modelRef].scene = "current"
      THEN MeshPaths(roots[modelRef].tree) ELSE { } )
\* raycaster.intersectObjects(scene.children, true): nearest first
Intersections ==
  { << >> } \cup { << a >> : a \in Targets } \cup { << a, b >> : a, b \in Targets }

\* obj.userData?.partId as a condition
PartIdTruthy(n) == n.partId > 0

\* while (obj && !obj.userData?.partId && obj.parent) obj = obj.parent;
\* the path of the node the walk stops at, Grid when it stops at the scene
RECURSIVE Climb(_, _)
Climb(tree, path) ==
  IF path = Grid THEN Grid
  ELSE IF PartIdTruthy(NodeAt(tree, path)) THEN path
  ELSE IF path = << >> THEN Grid
  ELSE Climb(tree, SubSeq(path, 1, Len(path) - 1))

\* for (const inter of intersects) { ... break; }: the part id of hitMesh,
\* -1 when the loop ends without one
RECURSIVE HitPartId(_, _)
HitPartId(tree, intersects) ==
  IF intersects = << >> THEN -1
  ELSE LET obj == Climb(tree, Head(intersects)) IN
       IF obj # Grid /\ IsStamped(NodeAt(tree, obj))
         THEN NodeAt(tree, obj).partId
         ELSE HitPartId(tree, Tail(intersects))

\* the cleanup of the effect on [selectedPartInfo]: clearTimeout(id) of the
\* timeout the effect started last
MutClearTimeout(pending) == pending
clearTimeout(pending) ==
  IF pending = { } THEN { }
  ELSE pending \ { CHOOSE t \in pending : \A u \in pending : u <= t }

handleClickOnCanvas(intersects) ==
  /\ \E partId \in { IF intersects = << >> THEN -1
                     ELSE HitPartId(roots[modelRef].tree, intersects) } :
       IF partId # -1 /\ \E i \in DOMAIN parts : parts[i].id = partId
         THEN LET part == parts[CHOOSE i \in DOMAIN parts : parts[i].id = partId] IN
              /\ editingPartId' = partId
              /\ selectedPartInfo' = [ id |-> partId, name |-> part.name, notes |-> part.notes ]
              /\ timers' = clearTimeout(timers) \cup { DisplaySeconds }
              /\ age' = 0
         ELSE UNCHANGED <<editingPartId, selectedPartInfo, timers, age>>
  /\ alertMsg' = ""
  /\ UNCHANGED <<camera, form, quote, hasModel, visible, position, rotation, parts, projects,
                 currentProjectId, pendingNotes, viewerRefs, renderVars,
                 callVars, serverVars>>

\* one second passes: a timeout that is due runs setSelectedPartInfo(null),
\* and the effect's cleanup runs when that changes the state
Tick ==
  /\ timers # { } \/ (selectedPartInfo # NoInfo /\ age < DisplaySeconds)
  /\ age' = Min2(age + 1, DisplaySeconds)
  /\ \E rest \in { { t - 1 : t \in timers \ { 1 } } } :
       IF 1 \in timers
         THEN /\ selectedPartInfo' = NoInfo
              /\ timers' = IF selectedPartInfo # NoInfo THEN clearTimeout(rest) ELSE rest
         ELSE /\ timers' = rest
              /\ UNCHANGED selectedPartInfo
  /\ UNCHANGED <<camera, form, quote, viewerState, viewerRefs, renderVars, callVars,
                 alertMsg, serverVars>>

NextSelect ==
  \/ \E id \in ListedIds : handleLoadProject(id)
  \/ \E l \in loads : LoadComplete(l)
  \/ \E intersects \in Intersections : handleClickOnCanvas(intersects)
  \/ Tick

SpecSelect == Init /\ [][NextSelect]_vars

\* C13: a click whose nearest intersection is on the mesh stamped with part id
\* k selects part k (editingPartId and selectedPartInfo name k), for every k
\* from 0 on, and a click that meets no stamped mesh changes neither.
C13_ClickSelects ==
  [][ \A intersects \in Intersections :
        handleClickOnCanvas(intersects) =>
          /\ (intersects # << >> /\ Head(intersects) # Grid)
               => LET k == NodeAt(roots[modelRef].tree, Head(intersects)).partId IN
                    editingPartId' = k /\ selectedPartInfo'.id = k
          /\ (\A i \in DOMAIN intersects : intersects[i] = Grid)
               => UNCHANGED <<editingPartId, selectedPartInfo>> ]_vars

\* C14: the banner of the selected part is gone once DisplaySeconds have passed
\* since the latest selection, and it goes no earlier: the timeout of an older
\* selection, cancelled by the newer one, never clears the newer selection.
C14_DisplayTimeout ==
  [][ /\ selectedPartInfo' # NoInfo => age' < DisplaySeconds
      /\ (selectedPartInfo # NoInfo /\ selectedPartInfo' = NoInfo)
           => age' = DisplaySeconds ]_vars
\* a part was selected by a click and its banner has timed out
C14_Witness ==
  /\ editingPartId # -1
  /\ selectedPartInfo = NoInfo
  /\ age = DisplaySeconds
  /\ timers = { }

(***************************************************************************)
(* C15: visibility of parts and of their meshes                            *)
(***************************************************************************)
\* each Part's visible flag is the render visibility of the mesh with its id
VisibleInStep ==
  \A n \in StampedMeshes :
    (\E i \in DOMAIN parts : parts[i].id = n.partId) => PartOf(n).visible = n.visible

\* C15: setAllPartsVisible(v) leaves, in one transition, every Part with
\* visible = v and every stamped mesh with render visibility v; and after any
\* per-part or all-parts toggle each Part's visible flag equals the render
\* visibility of its mesh.
C15_VisibilityInStep ==
  [][ /\ \A value \in BOOLEAN :
           setAllPartsVisible(value) =>
             /\ \A i \in DOMAIN parts' : parts'[i].visible = value
             /\ \A n \in StampedMeshes' : n.visible = value
      /\ VisibleInStep' ]_vars
\* some layers of the model shown are hidden and others are not
C15_Witness ==
  /\ \E n \in StampedMeshes : ~n.visible /\ ~PartOf(n).visible
  /\ \E n \in StampedMeshes : n.visible /\ PartOf(n).visible

(***************************************************************************)
(* C16: a loader that fails                                                *)
(***************************************************************************)
\* C16: when the loader of a started load fails, the error is shown and the
\* model slot is left empty: no active SceneRoot and no Parts, whatever model
\* was shown before.
C16_LoadErrorEmptiesSlot ==
  [][ \A l \in loads :
        LoadFail(l) => /\ alertMsg' # ""
                       /\ modelRef' = 0
                       /\ parts' = << >>
                       /\ ~hasModel' ]_vars

(***************************************************************************)
(* SpecFormats: files of every extension, picked from disk or stored       *)
(***************************************************************************)
\* the files the user can put in a project's "replace model" input
UploadTxt == [ name |-> "notas.txt", content |-> "text" ]
UploadFiles == { UploadGlb, UploadTxt }

NextFormats ==
  \/ \E file \in LocalFiles : handleFileChange(file)
  \/ \E id \in ListedIds : handleLoadProject(id)
  \/ \E l \in loads : LoadComplete(l)
  \/ \E l \in loads : LoadFail(l)
  \/ \E id \in ListedIds, file \in UploadFiles : handleReplaceModel(id, file)
  \/ \E c \in calls : ServerHandle(c)
  \/ \E c \in calls : Receive(c)
  \/ \E c \in calls : Refresh(c)

SpecFormats == Init /\ [][NextFormats]_vars

\* the extensions the viewer has a loader for
SupportedExts == { "stl", "obj", "gltf", "glb", "ply", "3mf" }
\* the extension of the model file of the listed project id
ListedExt(id) ==
  LET project == projects[CHOOSE i \in DOMAIN projects : projects[i].id = id]
  IN IF project.modelFile \in DOMAIN ExtOf THEN ExtOf[project.modelFile] ELSE "bin"

\* C17: picking a local file, or loading a project, whose extension is not
\* one of stl, obj, gltf, glb, ply, 3mf shows an error and starts no load, and
\* no load of a project with such a model file is ever in flight.
C17_UnsupportedFormat ==
  [][ /\ \A file \in LocalFiles :
           (ExtOf[file.name] \notin SupportedExts /\ handleFileChange(file))
             => alertMsg' # "" /\ loads' = loads /\ nextLoad' = nextLoad
      /\ \A id \in ListedIds :
           (ListedExt(id) \notin SupportedExts /\ handleLoadProject(id))
             => alertMsg' # "" /\ loads' = loads /\ nextLoad' = nextLoad
      /\ \A l \in loads' :
           l.project.id # 0 => ExtOf[l.project.modelFile] \in SupportedExts ]_vars
\* a project whose stored model file is modelo.txt was asked for and refused
C17_Witness ==
  /\ alertMsg = "Formato no soportado en este proyecto."
  /\ currentProjectId # 0
  /\ ListedExt(currentProjectId) = "txt"
  /\ loads = { }

(***************************************************************************)
(* SpecStale: the viewer's list against a store another client changes     *)
(***************************************************************************)
\* what another browser sends meanwhile: it deletes project 2
StaleRequests == { Request("delete", 2, "abc123", << >>) }

NextStale ==
  \/ \E req \in StaleRequests : ServerRequest(req)
  \/ \E id \in ListedIds, pwd \in Passwords : handleDeleteProject(id, pwd)
  \/ \E id \in ListedIds, pwd \in Passwords : handleUpdateProjectTransform(id, pwd)
  \/ \E id \in ListedIds, pwd \in Passwords : handleRenameProject(id, "Soporte", pwd)
  \/ \E axis \in PositionAxes, value \in PositionInputs : handlePositionChange(axis, value)
  \/ \E c \in calls : ServerHandle(c)
  \/ \E c \in calls : Receive(c)
  \/ \E c \in calls : Refresh(c)

SpecStale == Init /\ [][NextStale]_vars

\* C18: when a store call of the viewer was answered 404 (the project id is
\* stale), the handler shows the error and ends with the project list fetched
\* again from the server.
C18_NotFoundRefreshes ==
  [][ \A c \in calls :
        (c.status = 404 /\ c \notin calls')
          => /\ alertMsg' # ""
             /\ lastDone'.refetched
             /\ projects' = GetProjects(db') ]_vars

(***************************************************************************)
(* SpecForm: the new-project form and the prompts of the store handlers    *)
(***************************************************************************)
\* what window.prompt returns: "" when it is cancelled or left empty
PromptInputs == { "", "abc123" }
NameInputs == { "", "Soporte" }

NextForm ==
  \/ \E field \in FormFields : \E value \in FormInputs[field] : FormChange(field, value)
  \/ handleSubmit
  \/ \E id \in ListedIds : handleLoadProject(id)
  \/ \E l \in loads : LoadComplete(l)
  \/ \E id \in ListedIds, pwd \in PromptInputs : handleDeleteProject(id, pwd)
  \/ \E id \in ListedIds, pwd \in PromptInputs : handleUpdateProjectTransform(id, pwd)
  \/ \E id \in ListedIds, newName \in NameInputs, pwd \in PromptInputs :
       handleRenameProject(id, newName, pwd)
  \/ \E pwd \in PromptInputs : handleSavePendingNotes(pwd)
  \/ \E id \in PartInputs, pwd \in PromptInputs : handleSavePartMeta(id, pwd)
  \/ \E c \in calls : ServerHandle(c)
  \/ \E c \in calls : ServerFault(c)
  \/ \E c \in calls : Receive(c)
  \/ \E c \in calls : Refresh(c)

SpecForm == Init /\ [][NextForm]_vars

\* no request leaves the viewer and its local state stays as it is
NothingSent ==
  /\ calls' = calls
  /\ nextCall' = nextCall
  /\ UNCHANGED <<localState, form, hasModel, editingPartId, db, pub>>

\* C19: a store handler that lacks a required field (name, password or file
\* of the form on create; an empty or cancelled prompt on delete, transform,
\* rename, notes and part metadata; no current project on notes and part
\* metadata) sends no request and leaves the local state unchanged.
C19_ValidationSendsNothing ==
  [][ /\ ( (form.name = "" \/ form.password = "" \/ form.file = NoFile)
           /\ handleSubmit ) => NothingSent
      /\ \A id \in ListedIds :
           /\ handleDeleteProject(id, "") => NothingSent
           /\ handleUpdateProjectTransform(id, "") => NothingSent
           /\ \A newName \in NameInputs : handleRenameProject(id, newName, "") => NothingSent
           /\ \A pwd \in PromptInputs : handleRenameProject(id, "", pwd) => NothingSent
      /\ handleSavePendingNotes("") => NothingSent
      /\ \A id \in PartInputs : handleSavePartMeta(id, "") => NothingSent
      /\ \A pwd \in PromptInputs :
           currentProjectId = 0 =>
             /\ handleSavePendingNotes(pwd) => NothingSent
             /\ \A id \in PartInputs : handleSavePartMeta(id, pwd) => NothingSent ]_vars
\* the form was submitted without a password: the alert is up, the fields typed
\* so far are still there and no call was started
C19_Witness ==
  /\ alertMsg = "Nombre, contraseña y archivo de modelo son obligatorios."
  /\ form.name = "Soporte"
  /\ form.file = UploadGlb
  /\ form.password = ""
  /\ nextCall = 0

\* C20: when a create-project request has failed, the form still holds the
\* name, author, password and file the user had entered for it, so that the
\* request can be sent again without typing them anew.
C20_FailedCreateKeepsForm ==
  [][ \A c \in calls :
        (c.kind = "create" /\ c.pc = "answered" /\ c.status # 200 /\ c \notin calls')
          => /\ form'.name = c.body.projectName
             /\ form'.author = c.body.author
             /\ form'.password = c.password
             /\ form'.file = c.body.file ]_vars

(***************************************************************************)
(* C21: what the list shows of a project just created                      *)
(***************************************************************************)
\* C21: a create request with a model file, a name and a password is answered
\* ok with a projectId, and the list then served has a project with that id,
\* a model URL and partsMeta equal to the empty mapping.
C21_CreatedProjectListed ==
  [][ \A c \in calls :
        ( /\ c.kind = "create" /\ c.pc = "sent"
          /\ "file" \in DOMAIN c.body /\ c.body.projectName # "" /\ c.password # ""
          /\ ServerHandle(c) )
          => /\ lastHttp'.status = 200
             /\ lastHttp'.projectId # 0
             /\ \E i \in DOMAIN GetProjects(db') :
                  LET p == GetProjects(db')[i] IN
                  /\ p.id = lastHttp'.projectId
                  /\ p.modelUrl # NoUrl
                  /\ p.partsMeta = << >> ]_vars

(***************************************************************************)
(* C22: what a delete removes                                              *)
(***************************************************************************)
\* the stored records other than the one with the given id, in their order
OthersOf(store, id) == SelectSeq(store, LAMBDA p : String(p.id) # String(id))

C23_IncompleteCreate ==
  [][ \A req \in Requests :
        ( /\ req.kind = "create"
          /\ \/ "file" \notin DOMAIN req.body
             \/ "projectName" \notin DOMAIN req.body
             \/ req.password = ""
          /\ ServerRequest(req) )
          => /\ lastHttp'.status = 400
             /\ db' = db
             /\ pub' = pub
             /\ lastHttp'.upload \in { "none", "removed" } ]_vars
\* a create request that carried a file and a name but no password was refused
C23_Witness ==
  /\ lastHttp.req.kind = "create"
  /\ lastHttp.req.password = ""
  /\ "file" \in DOMAIN lastHttp.req.body
  /\ "projectName" \in DOMAIN lastHttp.req.body
  /\ lastHttp.status = 400
  /\ lastHttp.upload = "removed"

(***************************************************************************)
(* C24: what a parts-meta request writes                                   *)
(***************************************************************************)
\* SpecMeta: parts-meta requests of any client, with every mix of fields
\* sent and omitted, between renames of the project
MetaBodies ==
  { [ partId |-> 0, color |-> "#123456" ],
    [ partId |-> 0, color |-> "" ],
    [ partId |-> 0, notes |-> "urgente" ],
    [ partId |-> 7, name |-> "Tapa", materialPreset |-> "metal" ],
    [ partId |-> 3 ],
    [ color |-> "#123456" ] }
MetaRequests ==
  { Request("parts-meta", id, password, body) :
      id \in RequestIds, password \in RequestPasswords, body \in MetaBodies }
  \cup { Request("rename", 2, "abc123", [ name |-> "Soporte" ]) }

NextMeta == \E req \in MetaRequests : ServerRequest(req)

SpecMeta == Init /\ [][NextMeta]_vars

EntryFields == { "name", "notes", "color", "materialPreset" }
EntryDefaults ==
  [ name |-> "", notes |-> "", color |-> "#22c55e", materialPreset |-> "plastic" ]

\* an accepted parts-meta request req changes, in this step, only the entry
\* under String(partId) of the project it names; a field it carries is
\* written as sent
WritesOneEntry(req) ==
  LET i == FindIndex(db, req.id)
      key == String(req.body.partId)
      old == db[i].partsMeta
      new == db'[i].partsMeta
  IN /\ lastHttp'.status = 200
     /\ DOMAIN db' = DOMAIN db
     /\ \A j \in DOMAIN db : j # i => db'[j] = db[j]
     /\ db' = [ db EXCEPT ![i].partsMeta = new ]
     /\ DOMAIN new = DOMAIN old \cup { key }
     /\ \A k \in DOMAIN old \ { key } : new[k] = old[k]
     /\ \A f \in EntryFields : f \in DOMAIN req.body => new[key][f] = req.body[f]

\* the parts-meta requests that name a stored project, carry a partId and
\* the project's password
AcceptedPartsMeta ==
  { req \in MetaRequests :
      /\ req.kind = "parts-meta"
      /\ "partId" \in DOMAIN req.body
      /\ FindIndex(db, req.id) # 0
      /\ hashPassword(req.password) = db[FindIndex(db, req.id)].passwordHash }

\* C24 as stated: an accepted parts-meta request for partId k writes only the
\* entry under String(k); a field the request omits keeps the value the entry
\* had; a request without partId answers 400 and changes nothing.
C24_PartsMetaWrite_AsStated ==
  [][ /\ \A req \in AcceptedPartsMeta :
           ServerRequest(req) =>
             /\ WritesOneEntry(req)
             /\ LET key == String(req.body.partId)
                    old == db[FindIndex(db, req.id)].partsMeta
                    new == db'[FindIndex(db, req.id)].partsMeta
                IN \A f \in EntryFields :
                     (f \notin DOMAIN req.body /\ key \in DOMAIN old /\ f \in DOMAIN old[key])
                       => new[key][f] = old[key][f]
      /\ \A req \in MetaRequests :
           (req.kind = "parts-meta" /\ "partId" \notin DOMAIN req.body /\ ServerRequest(req))
             => lastHttp'.status = 400 /\ db' = db /\ pub' = pub ]_vars

\* C24 amended: an accepted parts-meta request for partId k writes only the
\* entry under String(k); a field the request omits keeps the value the entry
\* had when that value is not empty, and is otherwise set to its default (""
\* for name and notes, "#22c55e" for color, "plastic" for materialPreset); a
\* request without partId answers 400 and changes nothing.
C24_PartsMetaWrite ==
  [][ /\ \A req \in AcceptedPartsMeta :
           ServerRequest(req) =>
             /\ WritesOneEntry(req)
             /\ LET key == String(req.body.partId)
                    old == db[FindIndex(db, req.id)].partsMeta
                    new == db'[FindIndex(db, req.id)].partsMeta
                IN \A f \in EntryFields :
                     f \notin DOMAIN req.body =>
                       new[key][f] =
                         IF key \in DOMAIN old /\ f \in DOMAIN old[key] /\ old[key][f] # ""
                           THEN old[key][f] ELSE EntryDefaults[f]
      /\ \A req \in MetaRequests :
           (req.kind = "parts-meta" /\ "partId" \notin DOMAIN req.body /\ ServerRequest(req))
             => lastHttp'.status = 400 /\ db' = db /\ pub' = pub ]_vars
\* the entry "0" of project 2 was written twice: its color, sent in one
\* request, is kept by a later one that sent only the notes, next to the
\* untouched entry "7"
C24_Witness ==
  /\ lastHttp.req.kind = "parts-meta"
  /\ lastHttp.status = 200
  /\ "color" \notin DOMAIN lastHttp.req.body
  /\ \E i \in DOMAIN db :
       /\ db[i].id = 2
       /\ db[i].partsMeta["0"].color = "#123456"
       /\ db[i].partsMeta["0"].notes = "urgente"
       /\ db[i].partsMeta["7"] = InitProject2.partsMeta["7"]

(***************************************************************************)
(* C25: indexing a root twice                                              *)
(***************************************************************************)
\* C25: running updatePartsFromRoot again on a root that has not been touched
\* since it was indexed stamps every mesh as it is stamped already and gives
\* the same Part sequence: the parts in UI state are those of the second run,
\* as they are or with the saved metadata of the loaded project on them.
C25_IndexerIdempotent ==
  \A id \in DOMAIN roots :
    ~roots[id].disposed =>
      LET again == updatePartsFromRoot(roots[id].tree) IN
      /\ again.tree = roots[id].tree
      /\ updatePartsFromRoot(again.tree) = again
      /\ id = modelRef =>
           \/ parts = again.parts
           \/ \E i \in DOMAIN projects : parts = applyProjectPartsMeta(projects[i], again.parts)
\* a model of several meshes is shown, some named by the file, some not
C25_Witness ==
  /\ modelRef # 0
  /\ ~roots[modelRef].disposed
  /\ Len(parts) >= 3
  /\ \E i, j \in DOMAIN parts : parts[i].name = ParteName(parts[i].id)
                                /\ parts[j].name # ParteName(parts[j].id)

(***************************************************************************)
(* C26: the Part sequence and the active SceneRoot                         *)
(***************************************************************************)
\* C26: in every reachable state the Part sequence belongs to the active
\* SceneRoot: it is empty when the model slot is empty, and otherwise it has
\* one Part per mesh of the active root, the Part at place k has id k - 1, and
\* the ids stamped on the root's meshes are exactly the ids of its Parts.
C26_PartsOfActiveRoot ==
  IF modelRef = 0
    THEN parts = << >>
    ELSE /\ \A k \in DOMAIN parts : parts[k].id = k - 1
         /\ { n.partId : n \in StampedMeshes } = { parts[k].id : k \in DOMAIN parts }
         /\ Cardinality(MeshPaths(roots[modelRef].tree)) = Len(parts)
\* the root of the load started first has replaced the root of the load
\* started second, and it has several meshes
C26_Witness ==
  /\ modelRef = 1
  /\ 2 \in DOMAIN roots
  /\ roots[2].disposed
  /\ Len(parts) >= 3

(***************************************************************************)
(* C27: the two branches of updatePartMeshAppearance                       *)
(***************************************************************************)
MaterialAttributes == { "color", "shininess", "specular", "opacity", "transparent", "side" }
\* the colours a part can be given: a picked colour, a palette colour, none
PartColors == ColorInputs \cup { PART_COLORS[i] : i \in DOMAIN PART_COLORS } \cup { "" }
\* the material of mesh n after updatePartMeshAppearance(n.partId, color, preset)
Repainted(n, colorHex, presetKey) == Repaint(n, n.partId, colorHex, presetKey).material

\* C27: for every mesh of the active model, every colour and every preset,
\* updatePartMeshAppearance leaves the same colour, shininess, specular,
\* opacity, transparency and sidedness on the mesh whether it mutates the
\* mesh's material in place or, the material not being a MeshPhongMaterial,
\* replaces it; both are the attributes of createMaterialForPart.
C27_ReplaceEqualsMutate ==
  \A n \in StampedMeshes, colorHex \in PartColors, presetKey \in DOMAIN MATERIAL_PRESETS :
    LET mutated  == Repainted(n, colorHex, presetKey)
        replaced == Repainted([ n EXCEPT !.material = FileStandardMaterial ],
                              colorHex, presetKey)
    IN /\ n.material.isMeshPhongMaterial
       /\ \A a \in MaterialAttributes :
            /\ mutated[a] = replaced[a]
            /\ mutated[a] = createMaterialForPart(colorHex, presetKey)[a]
\* a mesh the file gave a MeshPhongMaterial was made glass and given the picked
\* colour, both in place
C27_Witness ==
  \E n \in StampedMeshes :
    /\ n.materialPreset = "glass"
    /\ n.material.transparent
    /\ n.material.color \in ColorInputs
    /\ n.material.side = "DoubleSide"

(***************************************************************************)
(* C28: the transform controls write the render object                     *)
(***************************************************************************)
\* a step of handlePositionChange, handleRotationChange or handleResetTransform
TransformStep ==
  \/ \E axis \in PositionAxes, value \in PositionInputs : handlePositionChange(axis, value)
  \/ \E axis \in RotationAxes, value \in RotationInputs : handleRotationChange(axis, value)
  \/ handleResetTransform

\* C28: with an active model that was not loaded from an STL, after every
\* position change, rotation change and reset the render object's position is
\* the UI position and its rotation is the UI rotation converted to radians.
C28_TransformWritesObject ==
  [][ (modelRef # 0 /\ roots[modelRef].format # "STL" /\ TransformStep) =>
        /\ roots'[modelRef'].position = position'
        /\ roots'[modelRef'].rotation =
             Vec(degToRad(rotation'.x), degToRad(rotation'.y), degToRad(rotation'.z)) ]_vars

(***************************************************************************)
(* C29: the format tag and the active model                                *)
(***************************************************************************)
\* C29: in every state with an active model, modelTypeRef names the format
\* of that model: the effects snap to the ground (modelTypeRef is "stl")
\* exactly when the active model was loaded by the STL loader.
C29_FormatTagOfActiveRoot ==
  modelRef # 0 => (modelTypeRef = "stl" <=> roots[modelRef].format = "STL")

(***************************************************************************)
(* C30: the current project and the model on screen                        *)
(***************************************************************************)
\* C30: when the load of a project P completes and its root becomes the
\* active model, currentProjectId is P or null, so that the saves of part
\* metadata and of notes go to the project whose model is shown.
C30_CurrentProjectOfActiveRoot ==
  [][ \A l \in loads :
        (l.project.id # 0 /\ LoadComplete(l)) =>
          /\ modelRef' = l.id
          /\ currentProjectId' \in { l.project.id, 0 } ]_vars

(***************************************************************************)
(* SpecRace: route handlers that await between loadDb and saveDb.  POST    *)
(* /api/projects, PUT .../model, PUT .../rename and DELETE read the store, *)
(* await file operations and then write the array they read; the other     *)
(* routes run from loadDb to saveDb without yielding.                      *)
(***************************************************************************)
MaxHandlers == 2
AsyncKinds == { "create", "model", "rename", "delete" }

RaceRequests ==
  { Request("create", 0, "abc123", [ file |-> UploadGlb, projectName |-> "Soporte" ]),
    Request("create", 0, "abc123", [ file |-> UploadGlb, projectName |-> "Pieza" ]),
    Request("rename", 2, "abc123", [ name |-> "Soporte" ]),
    Request("transform", 2, "abc123", [ position |-> Vec(5, 0, 0), rotation |-> Vec(0, 90, 0) ]) }

\* the request passes the route's checks on the store as it is
Accepted(req) == Handle(db, pub, req).status = 200

\* a handler runs up to its first await: it has read the store
RouteBegin(req) ==
  /\ req.kind \in AsyncKinds
  /\ Accepted(req)
  /\ req.kind = "create" => Len(db) < MaxProjects
  /\ \E slot \in 1..MaxHandlers :
       /\ slot \notin DOMAIN handlers
       /\ \A t \in 1..(slot - 1) : t \in DOMAIN handlers
       /\ handlers' = (slot :> [ req |-> req, snap |-> db ]) @@ handlers
  /\ UNCHANGED <<uiVars, viewerState, viewerRefs, renderVars, callVars, alertMsg,
                 db, pub, lastHttp>>

\* the awaited file operations are done: the handler changes the array it
\* read, saves it and answers
RouteFinish(slot) ==
  /\ slot \in DOMAIN handlers
  /\ \E h \in { handlers[slot] } :
     \E r \in { Handle(h.snap, pub, h.req) } :
       /\ db' = IF r.status = 200 THEN r.db ELSE db
       /\ pub' = r.pub
       /\ lastHttp' = [ req |-> h.req, status |-> r.status, projectId |-> r.projectId,
                        upload |-> UploadAfter(h.req, r.status) ]
  /\ handlers' = [ t \in DOMAIN handlers \ { slot } |-> handlers[t] ]
  /\ UNCHANGED <<uiVars, viewerState, viewerRefs, renderVars, callVars, alertMsg>>

NextRace ==
  \/ \E req \in RaceRequests : RouteBegin(req)
  \/ \E slot \in DOMAIN handlers : RouteFinish(slot)
  \/ \E req \in RaceRequests :
       /\ req.kind \in AsyncKinds => ~Accepted(req)
       /\ ServerRequest(req)

SpecRace == Init /\ [][NextRace]_vars

(***************************************************************************)
(* C31: concurrent creates                                                 *)
(***************************************************************************)
\* the store holds a project with the id and the name of p
Holds(store, p) == \E i \in DOMAIN store : store[i].id = p.id /\ store[i].name = p.name

\* C31: project ids are unique among the stored projects in every state, and
\* a create answered with ok leaves its project in the store: when a create
\* is answered, the store holds the project it made under the id it returns
\* and still holds every project it held before, the projects of other
\* creates included.
C31_ConcurrentCreates ==
  [][ /\ \A i, j \in DOMAIN db' : i # j => db'[i].id # db'[j].id
      /\ \A slot \in DOMAIN handlers :
           (handlers[slot].req.kind = "create" /\ RouteFinish(slot)) =>
             /\ lastHttp'.status = 200
             /\ Holds(db', [ id |-> lastHttp'.projectId,
                             name |-> handlers[slot].req.body.projectName ])
             /\ \A i \in DOMAIN db : Holds(db', db[i]) ]_vars

(***************************************************************************)
(* C32: acknowledged updates and handlers in flight                        *)
(***************************************************************************)
ProjectFields == { "id", "name", "author", "date", "slug", "passwordHash", "modelFile",
                   "position", "rotation", "partsMeta", "pendingNotes" }
\* the fields of the addressed project a route assigns
WrittenBy(kind) ==
  CASE kind = "rename" -> { "name", "slug" }
    [] kind = "model" -> { "modelFile" }
    [] OTHER -> { }

\* C32: no acknowledged update is lost.  When a handler that awaited between
\* reading and writing the store is answered with ok, everything other
\* requests were acknowledged for while it was in flight is still in the
\* store: every other project is as it was before the write, and the
\* addressed project differs only in the fields this route assigns.
C32_NoLostUpdate ==
  [][ \A slot \in DOMAIN handlers :
        (RouteFinish(slot) /\ lastHttp'.status = 200) =>
          \A i \in DOMAIN db :
            IF handlers[slot].req.kind # "create" /\ db[i].id = handlers[slot].req.id
              THEN \E j \in DOMAIN db' :
                     /\ db'[j].id = db[i].id
                     /\ \A f \in ProjectFields \ WrittenBy(handlers[slot].req.kind) :
                          db'[j][f] = db[i][f]
              ELSE \E j \in DOMAIN db' : db'[j] = db[i] ]_vars

(***************************************************************************)
(* C33: ids of deleted projects                                            *)
(***************************************************************************)
\* C33: an id is never assigned twice.  The id a create returns is not the
\* id of a project created earlier, deleted ones included: a create that
\* follows the delete of a project returns another id than that project's.
C33_IdNeverReused ==
  [][ ( /\ lastHttp.req.kind = "delete" /\ lastHttp.status = 200
        /\ lastHttp'.req.kind = "create" /\ lastHttp'.status = 200 )
      => /\ lastHttp'.projectId # lastHttp.req.id
         /\ \A i \in DOMAIN db : db[i].id # lastHttp'.projectId ]_vars

(***************************************************************************)
(* C34: scene.json and the store                                           *)
(***************************************************************************)
SceneFields == { "author", "date", "position", "rotation", "modelFile", "partsMeta" }

StaticScenes(fs) == { fs[d].scene : d \in { e \in DOMAIN fs : fs[e].scene # NoScene } }

\* C35: nothing the server gives without a password holds a password hash:
\* after every request, neither an entry of GET /api/projects nor a
\* scene.json served from the public directory has a field passwordHash.
C35_HashNotServed ==
  [][ lastHttp' # lastHttp =>
        /\ \A i \in DOMAIN db' : "passwordHash" \notin DOMAIN GetProjects(db')[i]
        /\ \A doc \in StaticScenes(pub') : "passwordHash" \notin DOMAIN doc ]_vars

(***************************************************************************)
(* SpecFiles: the routes that touch the public directory, with the file    *)
(* operations they await failing                                           *)
(***************************************************************************)
UploadStl == [ name |-> "pieza.stl", content |-> "geoA" ]
FileRequests ==
  { Request("create", 0, "abc123", [ file |-> UploadGlb, projectName |-> "Soporte" ]),
    Request("model", 2, "", [ file |-> UploadGlb ]),
    Request("model", 2, "", [ file |-> UploadStl ]),
    Request("model", 1, "", [ file |-> UploadGlb ]),
    Request("rename", 2, "abc123", [ name |-> "Soporte" ]),
    Request("rename", 2, "abc123", [ name |-> "Pieza" ]),
    Request("delete", 2, "abc123", << >>),
    Request("delete", 1, "abc123", << >>) }

\* the awaited operations of PUT /api/projects/:id/model, in order
ModelSteps == { "ensureDir", "remove", "move" }

\* PUT /api/projects/:id/model when the awaited operation `at` rejects: the
\* operations before it are done, the catch removes the upload and answers 500
PutModelFault(req, at) ==
  LET i == FindIndex(db, req.id)
      slug == db[i].slug
      dir == IF slug \in DOMAIN pub THEN pub[slug] ELSE [ files |-> << >>, scene |-> NoScene ]
      ensured == (slug :> dir) @@ pub
      removed == (slug :> [ dir EXCEPT !.files = RemoveFile(@, db[i].modelFile) ]) @@ pub
  IN
  /\ req.kind = "model"
  /\ "file" \in DOMAIN req.body
  /\ i # 0
  /\ at = "remove" => db[i].modelFile \in DOMAIN dir.files
  /\ pub' = CASE at = "ensureDir" -> pub
              [] at = "remove" -> ensured
              [] at = "move" -> IF db[i].modelFile # "" THEN removed ELSE ensured
  /\ lastHttp' = [ req |-> req, status |-> 500, projectId |-> 0,
                   upload |-> UploadAfter(req, 500) ]
  /\ UNCHANGED <<uiVars, viewerState, viewerRefs, renderVars, callVars, alertMsg,
                 db, handlers>>

NextFiles ==
  \/ \E req \in FileRequests : ServerRequest(req)
  \/ \E req \in FileRequests, at \in ModelSteps : PutModelFault(req, at)

SpecFiles == Init /\ [][NextFiles]_vars

\* C36: every listed project's model reference resolves: for each stored
\* project with a modelFile, the file public/<slug>/<modelFile> exists.
C36_ModelFileExists ==
  \A i \in DOMAIN db :
    db[i].modelFile # "" =>
      /\ db[i].slug \in DOMAIN pub
      /\ db[i].modelFile \in DOMAIN pub[db[i].slug].files

(***************************************************************************)
(* C37: where a loaded file is placed                                      *)
(***************************************************************************)
\* C37: when the load of a local file has completed and the effects of the
\* re-render have run, the model is where addRootToScene placed it: its
\* bounding box is centred on the origin in X and Z and its minimum Y is 0.
C37_PlacedAfterLoad ==
  [][ \A l \in loads :
        (l.project.id = 0 /\ LoadComplete(l)) =>
          LET box == WorldBox(roots'[modelRef']) IN
          ~box.empty =>
            /\ box.min.x + box.max.x = 0
            /\ box.min.z + box.max.z = 0
            /\ box.min.y = 0 ]_vars

(***************************************************************************)
(* C38: the model the viewer reports                                       *)
(***************************************************************************)
\* C38: whenever the viewer reports a model (hasModel, or a Part sequence
\* that is not empty), the active SceneRoot is a child of the scene being
\* rendered and its geometry and materials are not disposed.
C38_ReportedModelIsShown ==
  (hasModel \/ parts # << >>) =>
    /\ modelRef # 0
    /\ roots[modelRef].scene = "current"
    /\ ~roots[modelRef].disposed

(***************************************************************************)
(* SpecQuote: the Cotizacion modal.  The component stays mounted; its      *)
(* parent sets the props isOpen and projectId.  The routes under           *)
(* /api/quotes are not part of the server's source: a GET answers with     *)
(* the stored quote of the project, with 404, or fails.                    *)
(***************************************************************************)
MaxRows == 2

\* the quotes the backend holds, by project id
StoredQuotes ==
  1 :> << Row("tornillo", 4, 2, "") >> @@ 2 :> << Row("placa", 1, 50, "mci.mx/placa") >>
QuoteProjects == DOMAIN StoredQuotes
GetOutcomes == { "ok", "404", "error" }
\* what the user types into the concepto input of a row
ConceptInputs == { "extra", " " }
\* String.prototype.trim
Trim(str) == IF str = " " THEN "" ELSE str

QuoteFrame == <<camera, selectedPartInfo, timers, age, form, viewerState, viewerRefs,
                renderVars, callVars, alertMsg, serverVars>>

\* the parent renders the modal with other props: the cleanup of the effect
\* on [isOpen, projectId] aborts the fetch in flight, whose finally clears
\* loading after the new loadQuote has set it
SetQuoteProps(isOpen, projectId) ==
  /\ <<isOpen, projectId>> # <<quote.isOpen, quote.projectId>>
  /\ quote' = IF isOpen /\ projectId # 0
                THEN [ quote EXCEPT !.isOpen = isOpen, !.projectId = projectId,
                                    !.loading = (quote.fetches = { }),
                                    !.error = "",
                                    !.fetches = { projectId } ]
                ELSE [ quote EXCEPT !.isOpen = isOpen, !.projectId = projectId,
                                    !.loading = IF quote.fetches = { } THEN @ ELSE FALSE,
                                    !.fetches = { } ]
  /\ UNCHANGED QuoteFrame

\* loadQuote goes on after its fetch
QuoteResponse(projectId, outcome) ==
  /\ projectId \in quote.fetches
  /\ quote' = [ quote EXCEPT
                  !.fetches = { },
                  !.loading = FALSE,
                  !.items = CASE outcome = "ok" ->
                                   IF Len(StoredQuotes[projectId]) > 0
                                     THEN StoredQuotes[projectId] ELSE DefaultItems
                              [] outcome = "404" -> DefaultItems
                              [] OTHER -> @,
                  !.error = IF outcome = "error"
                              THEN "No se pudo cargar la cotización." ELSE @ ]
  /\ UNCHANGED QuoteFrame

Shown == quote.isOpen /\ quote.projectId # 0

handleChangeItem(index, value) ==
  /\ Shown
  /\ index \in DOMAIN quote.items
  /\ quote' = [ quote EXCEPT !.items[index].concepto = value ]
  /\ UNCHANGED QuoteFrame

handleAddRow ==
  /\ Shown
  /\ Len(quote.items) < MaxRows
  /\ quote' = [ quote EXCEPT !.items = Append(@, Row("", 1, 0, "")) ]
  /\ UNCHANGED QuoteFrame

handleRemoveRow(index) ==
  /\ Shown
  /\ index \in DOMAIN quote.items
  /\ quote' = [ quote EXCEPT
                  !.items = IF Len(@) = 1 THEN DefaultItems
                            ELSE SubSeq(@, 1, index - 1) \o SubSeq(@, index + 1, Len(@)) ]
  /\ UNCHANGED QuoteFrame

\* items.map(trim, Number).filter(some field is set)
RECURSIVE CleanItems(_)
CleanItems(items) ==
  IF items = << >> THEN << >>
  ELSE LET it == [ Head(items) EXCEPT !.concepto = Trim(@), !.link = Trim(@) ]
           rest == CleanItems(Tail(items))
       IN IF it.concepto # "" \/ it.cantidad > 0 \/ it.precio > 0 \/ it.link # ""
            THEN << it >> \o rest ELSE rest

\* handleSave with the password pwd (the prop or the prompt): the PUT it sends
handleSave(pwd) ==
  /\ Shown
  /\ quote' = IF pwd = ""
                THEN [ quote EXCEPT
                         !.error = "Se requiere la contraseña del proyecto para guardar." ]
              ELSE IF CleanItems(quote.items) = << >>
                THEN [ quote EXCEPT
                         !.error = "Agrega al menos un concepto con cantidad, precio o link." ]
              ELSE [ quote EXCEPT
                       !.error = "",
                       !.sent = [ pid |-> quote.projectId,
                                  items |-> CleanItems(quote.items),
                                  loading |-> quote.fetches # { } ] ]
  /\ UNCHANGED QuoteFrame

NextQuote ==
  \/ \E isOpen \in BOOLEAN, projectId \in QuoteProjects : SetQuoteProps(isOpen, projectId)
  \/ \E projectId \in QuoteProjects, outcome \in GetOutcomes :
       QuoteResponse(projectId, outcome)
  \/ \E index \in 1..MaxRows, value \in ConceptInputs : handleChangeItem(index, value)
  \/ handleAddRow
  \/ \E index \in 1..MaxRows : handleRemoveRow(index)
  \/ \E pwd \in PromptInputs : handleSave(pwd)

SpecQuote == Init /\ [][NextQuote]_vars

\* what a row of the modal may hold when it is open for project P: a concepto
\* of P's stored quote, one the user typed, or the empty one of a default row
OwnConcepts(projectId) ==
  { StoredQuotes[projectId][i].concepto : i \in DOMAIN StoredQuotes[projectId] }
    \cup ConceptInputs \cup { Trim(c) : c \in ConceptInputs } \cup { "" }

\* C39: the modal never shows or saves another project's items: when it is
\* open for project P and no load is in progress, each row is a row of P's
\* stored quote, possibly edited, or a default row, and the items of a save
\* made then are such rows of the project the save is sent to.
C39_QuoteOfOpenProject ==
  /\ (Shown /\ quote.fetches = { }) =>
       \A i \in DOMAIN quote.items :
         quote.items[i].concepto \in OwnConcepts(quote.projectId)
  /\ (quote.sent.pid # 0 /\ ~quote.sent.loading) =>
       \A i \in DOMAIN quote.sent.items :
         quote.sent.items[i].concepto \in OwnConcepts(quote.sent.pid)

=============================================================================
